---------------------------- MODULE Spec2Model ----------------------------
(***************************************************************************)
(* A model of the Obsidian AI Image OCR plugin: the provider adapters      *)
(* (OpenAIProvider, GeminiProvider), the batch orchestrator                *)
(* (extractTextFromImageFolder), the context builder (buildOCRContext),    *)
(* the template engine (formatTemplate, applyFormatting) and the output    *)
(* router (handleExtractedContent).                                        *)
(*                                                                         *)
(* Text is a sequence of one-character tokens; the two sentinel lines of   *)
(* the batch protocol, the ".md" extension and the separators are tokens   *)
(* of their own.  JavaScript values are tagged records, so that property   *)
(* access, the `in` operator and optional chaining behave as they do in    *)
(* the source, including the TypeErrors they raise.                        *)
(***************************************************************************)
EXTENDS Integers, Sequences, FiniteSets, TLC

VARIABLES
    settings,      \* plugin.settings, the persisted configuration object
    cmd,           \* the command (or function under test) of this invocation
    pc,            \* position of the invocation
    provider,      \* the OCRProvider instance returned by getProvider
    prepared,      \* PreparedImage[] of the invocation
    request,       \* the transport request handed to requestUrl
    outcome,       \* how the transport call settled
    results,       \* the per-image texts the backend wrapped (environment)
    response,      \* the value process / extractTextFromBase64 returned
    thrown,        \* an exception escaped the operation under observation
    matches,       \* the batch parser's matches
    content,       \* contentForFormatting
    context,       \* contextForFormatting
    finalContent,  \* the result of applyFormatting
    target,        \* name / folder / path computed by the output router
    editor,        \* the edit surface: present, doc, from, to, cursor
    vault,         \* path -> content of the notes in the vault
    folders,       \* the folders of the vault
    vault0,        \* the vault when the invocation started
    calls,         \* handleExtractedContent called on its own: its invocations
    notices,       \* the user notices shown so far
    tpl            \* formatTemplate under test: template, context, result

vars == <<settings, cmd, pc, provider, prepared, request, outcome, results,
          response, thrown, matches, content, context, finalContent, target,
          editor, vault, folders, vault0, calls, notices, tpl>>

(***************************************************************************)
(* Bounds of the model.                                                    *)
(***************************************************************************)
MaxImages == 2
MaxResults == 2
MaxSuffix == 2

(***************************************************************************)
(* Text.                                                                   *)
(***************************************************************************)
BEGIN_MARK == "--- BEGIN IMAGE: ---"
END_MARK == "--- END IMAGE ---"
NL == "\n"
SP == " "
MD == ".md"

\* The characters JavaScript's \s and String.prototype.trim treat as blank.
IsWs(c) == c \in {SP, NL, "\t"}

RECURSIVE TrimStart(_)
TrimStart(s) ==
    IF s # <<>> /\ IsWs(Head(s)) THEN TrimStart(Tail(s)) ELSE s

RECURSIVE TrimEnd(_)
TrimEnd(s) ==
    IF s # <<>> /\ IsWs(s[Len(s)]) THEN TrimEnd(SubSeq(s, 1, Len(s) - 1)) ELSE s

\* String.prototype.trim
Trim(s) == TrimEnd(TrimStart(s))

RECURSIVE Join(_)
\* Array.prototype.join("")
Join(list) ==
    IF list = <<>> THEN <<>> ELSE Head(list) \o Join(Tail(list))

Min(S) == CHOOSE m \in S : \A n \in S : m <= n
Max(S) == CHOOSE m \in S : \A n \in S : m >= n

\* All lists of at most n elements of S.
RECURSIVE ListsUpTo(_, _)
ListsUpTo(S, n) ==
    IF n = 0 THEN {<<>>}
    ELSE LET shorter == ListsUpTo(S, n - 1)
         IN  shorter \cup {Append(l, x) : l \in shorter, x \in S}

(***************************************************************************)
(* JavaScript values.                                                      *)
(***************************************************************************)
Undef == [t |-> "undefined"]
Null == [t |-> "null"]
StrV(s) == [t |-> "string", v |-> s]
NumV(n) == [t |-> "number", v |-> n]
ObjV(f) == [t |-> "object", v |-> f]
ArrV(q) == [t |-> "array", v |-> q]
\* A raised exception, as the result of evaluating an expression.
Throw == [t |-> "throw"]

IsThrow(v) == v.t = "throw"
IsNullish(v) == v.t \in {"undefined", "null"}

\* JavaScript truthiness
Truthy(v) ==
    /\ ~IsNullish(v)
    /\ ~(v.t = "string" /\ v.v = <<>>)
    /\ ~(v.t = "number" /\ v.v = 0)

\* The index an array key ("0", "1", ...) names, or 0.
ArrayIndex(k) ==
    IF \E i \in 1..9 : ToString(i - 1) = k
    THEN CHOOSE i \in 1..9 : ToString(i - 1) = k
    ELSE 0

\* v[k] for a v that is neither null nor undefined
Prop(v, k) ==
    CASE v.t = "object" -> IF k \in DOMAIN v.v THEN v.v[k] ELSE Undef
      [] v.t = "array" ->
            IF k = "length" THEN NumV(Len(v.v))
            ELSE IF ArrayIndex(k) \in 1..Len(v.v) THEN v.v[ArrayIndex(k)]
            ELSE Undef
      [] OTHER -> Undef

\* v.k : a TypeError when v is null or undefined
Member(v, k) ==
    IF IsThrow(v) \/ IsNullish(v) THEN Throw ELSE Prop(v, k)

\* v?.k
OptMember(v, k) ==
    IF IsThrow(v) THEN Throw
    ELSE IF IsNullish(v) THEN Undef
    ELSE Prop(v, k)

\* v?.trim() : undefined for a nullish v, a TypeError when v has no trim method
OptTrim(v) ==
    IF IsThrow(v) THEN Throw
    ELSE IF IsNullish(v) THEN Undef
    ELSE IF v.t = "string" THEN StrV(Trim(v.v))
    ELSE Throw


(***************************************************************************)
(* Provider adapters.                                                      *)
(***************************************************************************)
\* The default prompts, each one token of text.  The text of the batch
\* default is defined in a file that is not at hand; only its being a
\* non-blank text matters here.
DEFAULT_PROMPT_TEXT ==
    <<"Extract only the raw text from this image. Do not add commentary or explanations. Do not prepend anything. Return only the transcribed text in markdown format. Do not put a markdown codeblock around the returned text.">>
DEFAULT_BATCH_PROMPT_TEXT == <<"default batch prompt">>

ProviderIds ==
    {"openai", "openai-mini", "openai-4.1", "openai-4.1-mini",
     "openai-4.1-nano", "gemini", "gemini-lite", "gemini-pro", "ollama",
     "lmstudio", "custom"}

\* s || d for strings
OrElse(s, d) == IF s = "" THEN d ELSE s

\* settings.customPrompt?.trim() || DEFAULT_PROMPT_TEXT
EffectivePrompt(st) ==
    IF Trim(st.customPrompt) = <<>> THEN DEFAULT_PROMPT_TEXT
    ELSE Trim(st.customPrompt)

OpenAIProviderNew(apiKey, model, endpoint, family, prompt) ==
    [class |-> "OpenAIProvider", id |-> family, apiKey |-> apiKey,
     model |-> model, endpoint |-> endpoint, provider |-> family,
     prompt |-> prompt, hasProcess |-> TRUE]

GeminiProviderNew(apiKey, model, prompt) ==
    [class |-> "GeminiProvider", id |-> "gemini", apiKey |-> apiKey,
     model |-> model, endpoint |-> "https://generativelanguage.googleapis.com/v1beta/",
     provider |-> "gemini", prompt |-> prompt, hasProcess |-> TRUE]

OPENAI_URL == "https://api.openai.com/v1/chat/completions"

\* GPTImageOCRPlugin.getProvider
getProvider(st) ==
    LET p == st.provider
        prompt == EffectivePrompt(st)
    IN  CASE p = "gemini" ->
                GeminiProviderNew(st.geminiApiKey, "models/gemini-2.5-flash", prompt)
          [] p = "gemini-lite" ->
                GeminiProviderNew(st.geminiApiKey,
                    "models/gemini-2.5-flash-lite-preview-06-17", prompt)
          [] p = "gemini-pro" ->
                GeminiProviderNew(st.geminiApiKey, "models/gemini-2.5-pro", prompt)
          [] p = "openai-mini" ->
                OpenAIProviderNew(st.openaiApiKey, "gpt-4o-mini", OPENAI_URL, "openai", prompt)
          [] p = "openai" ->
                OpenAIProviderNew(st.openaiApiKey, "gpt-4o", OPENAI_URL, "openai", prompt)
          [] p = "openai-4.1" ->
                OpenAIProviderNew(st.openaiApiKey, "gpt-4.1", OPENAI_URL, "openai", prompt)
          [] p = "openai-4.1-mini" ->
                OpenAIProviderNew(st.openaiApiKey, "gpt-4.1-mini", OPENAI_URL, "openai", prompt)
          [] p = "openai-4.1-nano" ->
                OpenAIProviderNew(st.openaiApiKey, "gpt-4.1-nano", OPENAI_URL, "openai", prompt)
          [] p = "ollama" ->
                OpenAIProviderNew("", OrElse(st.ollamaModel, "llama3.2-vision"),
                    OrElse(st.ollamaUrl, "http://localhost:11434"), "ollama", prompt)
          [] p = "lmstudio" ->
                OpenAIProviderNew("", OrElse(st.lmstudioModel, "gemma3"),
                    OrElse(st.lmstudioUrl, "http://localhost:1234"), "lmstudio", prompt)
          [] p = "custom" ->
                OpenAIProviderNew(st.customApiKey, OrElse(st.customApiModel, "gpt-4"),
                    OrElse(st.customApiUrl, "https://example.com/v1/chat/completions"),
                    "openai", prompt)

NoRequest == [url |-> "", method |-> "", headers |-> <<>>, body |-> <<>>]

\* Headers that carry the credential whenever there is one.
OpenAIHeadersKeyed(prov) ==
    IF prov.apiKey # ""
    THEN [ContentType |-> "application/json",
          Authorization |-> "Bearer " \o prov.apiKey]
    ELSE [ContentType |-> "application/json"]

\* The headers OpenAIProvider.process sends.
OpenAIHeaders(prov) ==
    IF prov.provider = "openai"
    THEN [ContentType |-> "application/json",
          Authorization |-> "Bearer " \o prov.apiKey]
    ELSE [ContentType |-> "application/json"]

\* The request OpenAIProvider.process hands to requestUrl.
OpenAIRequest(prov, images, prompt) ==
    [url |-> CASE prov.provider = "ollama" -> prov.endpoint \o "/api/chat"
               [] prov.provider = "lmstudio" -> prov.endpoint \o "/api/v0/chat/completions"
               [] OTHER -> prov.endpoint,
     method |-> "POST",
     headers |-> OpenAIHeaders(prov),
     body |-> [model |-> prov.model,
               images |-> [i \in 1..Len(images) |-> images[i].base64],
               prompt |-> prompt,
               stream |-> IF prov.provider = "ollama" THEN "false" ELSE "unset"]]

\* The request GeminiProvider.process hands to requestUrl: the key travels
\* in the URL.
GeminiRequest(prov, images, prompt) ==
    [url |-> prov.endpoint \o prov.model \o ":generateContent?key=" \o prov.apiKey,
     method |-> "POST",
     headers |-> [ContentType |-> "application/json"],
     body |-> [model |-> prov.model,
               images |-> [i \in 1..Len(images) |-> images[i].base64],
               prompt |-> prompt,
               stream |-> "unset"]]

\* The first image alone in place of all of them.
BuildRequestFirst(prov, images, prompt) ==
    IF prov.class = "GeminiProvider" THEN GeminiRequest(prov, <<images[1]>>, prompt)
    ELSE OpenAIRequest(prov, <<images[1]>>, prompt)

BuildRequest(prov, images, prompt) ==
    IF prov.class = "GeminiProvider" THEN GeminiRequest(prov, images, prompt)
    ELSE OpenAIRequest(prov, images, prompt)

\* How a transport call settles: requestUrl rejects (no connection, or a
\* status of 400 and above), or resolves with a body that JSON.parse accepts
\* (json) or rejects.
NetworkError == [kind |-> "error", status |-> 0, json |-> FALSE, data |-> Undef]
HttpError(status) == [kind |-> "response", status |-> status, json |-> FALSE, data |-> Undef]
NotJson == [kind |-> "response", status |-> 200, json |-> FALSE, data |-> Undef]
JsonBody(d) == [kind |-> "response", status |-> 200, json |-> TRUE, data |-> d]

\* requestUrl: the response, or Throw
requestUrl(o) ==
    IF o.kind = "error" \/ o.status >= 400 THEN Throw ELSE ObjV([resp |-> o])

\* Boolean(v) of a value, or "throw"
Verdict(v) ==
    IF IsThrow(v) THEN "throw" ELSE IF Truthy(v) THEN "pass" ELSE "fail"

\* The structural predicate of OpenAIProvider.process: "pass", "fail" or
\* "throw" (d is null, so that d.message is a TypeError)
OpenAIValidator(prov, d) ==
    IF prov.provider = "ollama"
    THEN Verdict(OptMember(Member(d, "message"), "content"))
    ELSE LET c == Member(d, "choices")
         IN  IF IsThrow(c) THEN "throw"
             ELSE IF c.t = "array" THEN "pass" ELSE "fail"

\* The structural predicate of GeminiProvider.process
GeminiValidator(d) ==
    LET c == Member(d, "candidates")
    IN  IF IsThrow(c) THEN "throw"
        ELSE IF c.t # "array" THEN "fail"
        ELSE Verdict(OptMember(OptMember(Prop(c, "0"), "content"), "parts"))

Validator(prov, d) ==
    IF prov.class = "GeminiProvider" THEN GeminiValidator(d)
    ELSE OpenAIValidator(prov, d)

\* parseJsonResponse: the parsed data, or Throw
parseJsonResponse(o, prov) ==
    IF ~o.json THEN Throw
    ELSE IF Validator(prov, o.data) # "pass" THEN Throw
    ELSE o.data

\* The text read out of validated data without the trim.
ExtractContentRaw(prov, data) ==
    CASE prov.class = "GeminiProvider" ->
            OptMember(OptMember(OptMember(OptMember(
                Prop(Member(data, "candidates"), "0"),
                "content"), "parts"), "0"), "text")
      [] prov.provider = "ollama" ->
            OptMember(OptMember(data, "message"), "content")
      [] OTHER ->
            OptMember(OptMember(OptMember(OptMember(data,
                "choices"), "0"), "message"), "content")

\* The text a provider reads out of validated data, before `if (content)`.
ExtractContent(prov, data) ==
    CASE prov.class = "GeminiProvider" ->
            OptTrim(OptMember(OptMember(OptMember(OptMember(
                Prop(Member(data, "candidates"), "0"),
                "content"), "parts"), "0"), "text"))
      [] prov.provider = "ollama" ->
            OptTrim(OptMember(OptMember(data, "message"), "content"))
      [] OTHER ->
            OptTrim(OptMember(OptMember(OptMember(OptMember(data,
                "choices"), "0"), "message"), "content"))

\* The body of the try block of process: a text, or Throw.
ProcessTry(prov, o) ==
    IF IsThrow(requestUrl(o)) THEN Throw
    ELSE LET data == parseJsonResponse(o, prov)
         IN  IF IsThrow(data) THEN Throw
             ELSE LET c == ExtractContent(prov, data)
                  IN  IF IsThrow(c) THEN Throw
                      ELSE IF Truthy(c) THEN c
                      ELSE StrV(<<>>)

\* No catch clause: what the try block raised reaches the caller.
ProcessRethrow(r) == r

\* The catch clause of process: log and return "".
ProcessCatch(r) == IF IsThrow(r) THEN StrV(<<>>) ELSE r

\* OpenAIProvider.process / GeminiProvider.process, once the transport call
\* has settled as o: the returned text, or Throw.
Process(prov, o) == ProcessCatch(ProcessTry(prov, o))


(***************************************************************************)
(* Context builder.                                                        *)
(***************************************************************************)
DOT == "."

\* The position of the last "." of s, or 0.
LastDot(s) ==
    IF \E i \in 1..Len(s) : s[i] = DOT
    THEN CHOOSE i \in 1..Len(s) : s[i] = DOT /\ \A j \in (i + 1)..Len(s) : s[j] # DOT
    ELSE 0

\* s.replace(/\.[^.]*$/, "")
StripExtension(s) ==
    IF LastDot(s) = 0 THEN s ELSE SubSeq(s, 1, LastDot(s) - 1)

\* s.split(".").pop()
LastSegment(s) == SubSeq(s, LastDot(s) + 1, Len(s))

\* s.includes(".") ? (s.split(".").pop() || "") : ""
ExtensionOf(s) == IF LastDot(s) = 0 THEN <<>> ELSE LastSegment(s)

\* getProviderType
getProviderType(providerId) ==
    IF providerId \in {"gemini", "gemini-lite", "gemini-pro"} THEN "gemini" ELSE "openai"

\* One entry of `image` / `images` as buildOCRContext writes it.
ContextImage(img, index, total) ==
    ObjV([name |-> StrV(StripExtension(img.name)),
          extension |-> StrV(LastSegment(img.name)),
          path |-> StrV(img.path),
          size |-> NumV(img.size),
          mime |-> StrV(img.mime),
          width |-> Undef,
          height |-> Undef,
          index |-> NumV(index),
          total |-> NumV(total)])

ContextBase(providerId, modelId, prompt) ==
    [provider |-> ObjV([id |-> StrV(<<providerId>>),
                        name |-> StrV(<<providerId>>),
                        type |-> StrV(<<getProviderType(providerId)>>)]),
     model |-> ObjV([id |-> StrV(<<modelId>>), name |-> StrV(<<modelId>>)]),
     prompt |-> StrV(prompt)]

NoImages == <<>>
NoImage == [name |-> <<>>, path |-> <<>>, mime |-> <<>>, absent |-> TRUE]
IsGiven(img) == "absent" \notin DOMAIN img

\* buildOCRContext({providerId, ..., prompt, images, singleImage}); an
\* argument left out is NoImages / NoImage.
buildOCRContext(providerId, modelId, prompt, images, singleImage) ==
    LET base == ContextBase(providerId, modelId, prompt)
    IN  IF Len(images) > 1
        THEN ObjV(base @@ [images |->
                 ArrV([i \in 1..Len(images) |->
                          ContextImage(images[i], i, Len(images))])])
        ELSE IF IsGiven(singleImage) \/ Len(images) = 1
        THEN ObjV(base @@ [image |->
                 ContextImage(IF IsGiven(singleImage) THEN singleImage ELSE images[1], 1, 1)])
        ELSE ObjV(base)

\* One entry of `images` as the buildOCRContext of ocr.ts:84-166 writes it;
\* the descriptors of the commands carry no width, height, file or base64.
ContextImageKept(img, index, total) ==
    ObjV([name |-> StrV(StripExtension(img.name)),
          extension |-> StrV(IF img.extension # <<>> THEN img.extension
                             ELSE LastSegment(img.name)),
          path |-> StrV(img.path),
          size |-> NumV(img.size),
          mime |-> StrV(img.mime),
          width |-> Undef,
          height |-> Undef,
          file |-> Undef,
          base64 |-> Undef,
          index |-> NumV(index),
          total |-> NumV(total)])

\* { ...image }: the descriptor as it was handed over.
SpreadImage(img) ==
    ObjV([name |-> StrV(img.name), extension |-> StrV(img.extension),
          path |-> StrV(img.path), size |-> NumV(img.size), mime |-> StrV(img.mime)])

\* The buildOCRContext of ocr.ts:84-166, which copies a single image as it
\* is.
buildOCRContextSpread(providerId, modelId, prompt, images, singleImage) ==
    LET base == ContextBase(providerId, modelId, prompt)
    IN  IF Len(images) > 1
        THEN ObjV(base @@ [images |->
                 ArrV([i \in 1..Len(images) |->
                          ContextImageKept(images[i], i, Len(images))])])
        ELSE IF IsGiven(singleImage) \/ Len(images) = 1
        THEN ObjV(base @@ [image |->
                 SpreadImage(IF IsGiven(singleImage) THEN singleImage ELSE images[1])])
        ELSE ObjV(base)

\* Array.isArray(context.images)
HasImages(ctx) == "images" \in DOMAIN ctx.v /\ ctx.v["images"].t = "array"
HasImage(ctx) == "image" \in DOMAIN ctx.v

(***************************************************************************)
(* Batch orchestrator: the delimiter protocol.                             *)
(***************************************************************************)
\* The first position from i on that holds no blank (Len(s) + 1 if none).
SkipWs(s, i) ==
    Min({j \in i..(Len(s) + 1) : j = Len(s) + 1 \/ ~IsWs(s[j])})

RECURSIVE MatchAllFrom(_, _)
\* response.matchAll(/--- BEGIN IMAGE: ---\s*([\s\S]*?)\s*--- END IMAGE ---/g),
\* from position i on: the captured groups m[1], in order.  After the begin
\* marker \s* is greedy, the group is lazy, and the match ends with the
\* first end marker that blanks alone separate from the group.
MatchAllFrom(s, i) ==
    LET begins == {j \in i..Len(s) : s[j] = BEGIN_MARK}
    IN  IF begins = {} THEN <<>>
        ELSE LET b == Min(begins)
                 cs == SkipWs(s, b + 1)
                 lens == {n \in 0..(Len(s) + 1 - cs) :
                             LET e == SkipWs(s, cs + n)
                             IN  e <= Len(s) /\ s[e] = END_MARK}
             IN  IF lens = {} THEN MatchAllFrom(s, b + 1)
                 ELSE LET n == Min(lens)
                      IN  <<SubSeq(s, cs, cs + n - 1)>>
                              \o MatchAllFrom(s, SkipWs(s, cs + n) + 1)

\* The parser without the g flag: the first match alone.
ParseBatchFirst(s) ==
    LET groups == MatchAllFrom(s, 1)
    IN  [i \in 1..Min({1, Len(groups)}) |-> Trim(groups[i])]

\* Array.from(response.matchAll(...), m => m[1].trim())
ParseBatch(s) ==
    LET groups == MatchAllFrom(s, 1)
    IN  [i \in 1..Len(groups) |-> Trim(groups[i])]

RECURSIVE Wrap(_)
\* A response that follows batchFormatInstruction: each result between the
\* two sentinel lines.
Wrap(list) ==
    IF list = <<>> THEN <<>>
    ELSE <<BEGIN_MARK, NL>> \o Head(list) \o <<NL, END_MARK, NL>> \o Wrap(Tail(list))


(***************************************************************************)
(* Template engine.                                                        *)
(***************************************************************************)
OPEN == "{{"
CLOSE == "}}"
DATE_PREFIX == "date:"

\* The tokens made only of the characters of /^[YMDHms\-:/ ]+$/
DateTokens == {"YYYY", "MM", "DD", "HH", "mm", "ss", "-", ":", "/", SP}

\* The timestamp window.moment() reads.
Now == [YYYY |-> "2025", MM |-> "07", DD |-> "04", HH |-> "09", mm |-> "30", ss |-> "15"]

\* moment().format(fmt)
MomentFormat(fmt) ==
    [i \in 1..Len(fmt) |-> IF fmt[i] \in DOMAIN Now THEN Now[fmt[i]] ELSE fmt[i]]

RECURSIVE Split(_)
\* path.split(".")
Split(s) ==
    IF \E i \in 1..Len(s) : s[i] = DOT
    THEN LET i == Min({j \in 1..Len(s) : s[j] = DOT})
         IN  <<SubSeq(s, 1, i - 1)>> \o Split(SubSeq(s, i + 1, Len(s)))
    ELSE <<s>>

\* The property key a path segment names; a segment of several tokens or of
\* none names no key of the model's objects.
KeyOf(part) == IF Len(part) = 1 THEN part[1] ELSE "?"

\* part in value : a TypeError when value is a primitive
HasKey(v, k) ==
    CASE v.t = "object" -> k \in DOMAIN v.v
      [] v.t = "array" -> k = "length" \/ ArrayIndex(k) \in 1..Len(v.v)

IsPrimitive(v) == v.t \in {"string", "number"}

RECURSIVE Traverse(_, _)
\* The loop of getValue over the remaining parts, from value v.
Traverse(v, parts) ==
    IF parts = <<>> THEN v
    ELSE IF ~Truthy(v) THEN Undef
    ELSE IF IsPrimitive(v) THEN Throw
    ELSE IF HasKey(v, KeyOf(Head(parts))) THEN Traverse(Prop(v, KeyOf(Head(parts))), Tail(parts))
    ELSE Undef

RECURSIVE ToStr(_)
\* String(val)
ToStr(v) ==
    CASE v.t = "string" -> v.v
      [] v.t = "number" -> <<ToString(v.v)>>
      [] v.t = "object" -> <<"[object Object]">>
      [] v.t = "array" ->
            IF v.v = <<>> THEN <<>>
            ELSE IF Len(v.v) = 1 THEN ToStr(v.v[1])
            ELSE ToStr(v.v[1]) \o <<",">> \o ToStr(ArrV(Tail(v.v)))
      [] OTHER -> <<>>

\* a ?? b
Coalesce(a, b) == IF IsNullish(a) THEN b ELSE a

Empty == StrV(<<>>)

\* context.image?.filename ?? context.image?.name ?? ""
AliasFileName(ctx) ==
    Coalesce(OptMember(Prop(ctx, "image"), "filename"),
        Coalesce(OptMember(Prop(ctx, "image"), "name"), Empty))

\* The file name with its extension left on.
AliasNameWhole(fname) ==
    IF fname.t = "string" THEN fname ELSE Throw

\* fname.replace(/\.[^.]*$/, "") : a TypeError when fname is no string
AliasName(fname) ==
    IF fname.t = "string" THEN StrV(StripExtension(fname.v)) ELSE Throw

\* fname.includes(".") ? fname.split(".").pop() ?? "" : ""
AliasExtension(fname) ==
    IF fname.t # "string" THEN Throw
    ELSE IF LastDot(fname.v) \in {0, Len(fname.v)} THEN Empty
    ELSE StrV(LastSegment(fname.v))

PathOf(a, b) == <<a, DOT, b>>
PathOf3(a, b, c) == <<a, DOT, b, DOT, c>>

ImageFields ==
    {"size", "width", "height", "created", "modified", "iso", "exposure",
     "aperture", "focalLength", "orientation"}
ImageNested ==
    {<<"camera", "make">>, <<"camera", "model">>, <<"lens", "model">>,
     <<"gps", "latitude">>, <<"gps", "longitude">>, <<"gps", "altitude">>}

\* The switch of getValue: derived and legacy names.
Alias(path, ctx) ==
    LET img == Prop(ctx, "image") IN
    CASE path = PathOf("model", "id") ->
            Coalesce(OptMember(Prop(ctx, "model"), "id"),
                Coalesce(Prop(ctx, "modelId"), Coalesce(Prop(ctx, "model"), Empty)))
      [] path = PathOf("model", "name") ->
            Coalesce(OptMember(Prop(ctx, "model"), "name"),
                Coalesce(Prop(ctx, "modelName"), Coalesce(Prop(ctx, "model"), Empty)))
      [] path = PathOf("provider", "name") ->
            Coalesce(OptMember(Prop(ctx, "provider"), "name"),
                Coalesce(Prop(ctx, "providerName"), Empty))
      [] path = PathOf("provider", "id") ->
            Coalesce(OptMember(Prop(ctx, "provider"), "id"),
                Coalesce(Prop(ctx, "providerId"), Coalesce(Prop(ctx, "provider"), Empty)))
      [] path = PathOf("provider", "type") ->
            Coalesce(OptMember(Prop(ctx, "provider"), "type"),
                Coalesce(Prop(ctx, "providerType"), Empty))
      [] path = PathOf("image", "filename") -> AliasFileName(ctx)
      [] path = PathOf("image", "name") -> AliasName(AliasFileName(ctx))
      [] path = PathOf("image", "extension") -> AliasExtension(AliasFileName(ctx))
      [] path = PathOf("image", "path") ->
            Coalesce(OptMember(img, "path"), Coalesce(OptMember(img, "source"), Empty))
      [] path = PathOf("image", "dimensions") ->
            IF Truthy(OptMember(img, "width")) /\ Truthy(OptMember(img, "height"))
            THEN StrV(ToStr(Prop(img, "width")) \o <<"x">> \o ToStr(Prop(img, "height")))
            ELSE Empty
      [] Len(path) = 3 /\ path[1] = "image" /\ path[2] = DOT /\ path[3] \in ImageFields ->
            Coalesce(OptMember(img, path[3]), Empty)
      [] Len(path) = 5 /\ path[1] = "image" /\ path[2] = DOT /\ path[4] = DOT
            /\ <<path[3], path[5]>> \in ImageNested ->
            Coalesce(OptMember(OptMember(img, path[3]), path[5]), Empty)
      [] path = PathOf("embed", "altText") ->
            Coalesce(OptMember(Prop(ctx, "embed"), "altText"), Empty)
      [] path = PathOf("embed", "url") ->
            Coalesce(OptMember(Prop(ctx, "embed"), "path"),
                Coalesce(OptMember(Prop(ctx, "embed"), "url"), Empty))
      [] OTHER -> Empty

\* The tail of getValue once the loop has run: the value found, or the
\* switch over the derived names.
FoundOrAlias(v, path, ctx) ==
    IF IsThrow(v) THEN Throw
    ELSE IF v.t # "undefined" THEN v
    ELSE Alias(path, ctx)

\* getValue(path) of formatTemplate: a value, or Throw
getValue(path, ctx) == FoundOrAlias(Traverse(ctx, Split(path)), path, ctx)

\* val == null ? "" : String(val)
TextOf(val) ==
    IF IsThrow(val) THEN Throw
    ELSE IF IsNullish(val) THEN Empty
    ELSE StrV(ToStr(val))

\* The replacement callback of formatTemplate on the trimmed expression.
ResolveExpr(expr, ctx) ==
    IF expr # <<>> /\ expr[1] = DATE_PREFIX
    THEN StrV(MomentFormat(Trim(Tail(expr))))
    ELSE IF expr # <<>> /\ \A i \in 1..Len(expr) : expr[i] \in DateTokens
    THEN StrV(MomentFormat(expr))
    ELSE TextOf(getValue(expr, ctx))

\* The replacement callback of formatTemplate for one {{expr}}: a text
\* value, or Throw.
ResolveToken(rawExpr, ctx) == ResolveExpr(Trim(rawExpr), ctx)

\* The end of the token /{{(.*?)}}/ opens at position 1 of s, or 0: the
\* first "}}" with no line break before it.
TokenEnd(s) ==
    LET closes == {j \in 2..Len(s) : s[j] = CLOSE}
    IN  IF s = <<>> \/ s[1] # OPEN \/ closes = {} THEN 0
        ELSE IF \E k \in 2..(Min(closes) - 1) : s[k] = NL THEN 0
        ELSE Min(closes)

\* The text a followed by the text b; Throw if either is.
Followed(a, b) ==
    IF IsThrow(a) \/ IsThrow(b) THEN Throw ELSE StrV(a.v \o b.v)

RECURSIVE formatTemplate(_, _)
RECURSIVE ReplaceFrom(_, _, _)
\* template.replace(/{{(.*?)}}/g, ...) on a template whose first token, if
\* any opens at its start, ends at e.
ReplaceFrom(template, ctx, e) ==
    IF e = 0
    THEN Followed(StrV(<<Head(template)>>), formatTemplate(Tail(template), ctx))
    ELSE Followed(ResolveToken(SubSeq(template, 2, e - 1), ctx),
             formatTemplate(SubSeq(template, e + 1, Len(template)), ctx))

\* formatTemplate(template, context): a text value, or Throw
formatTemplate(template, ctx) ==
    IF template = <<>> THEN Empty
    ELSE ReplaceFrom(template, ctx, TokenEnd(template))


(***************************************************************************)
(* Formatting.                                                             *)
(***************************************************************************)
RECURSIVE FilterJoin(_)
\* list.filter(Boolean).join("")
FilterJoin(list) ==
    IF list = <<>> THEN <<>>
    ELSE (IF Truthy(Head(list)) THEN ToStr(Head(list)) ELSE <<>>)
             \o FilterJoin(Tail(list))

\* "\n" + footer, whatever the footer.
FooterPartAlways(footer) == StrV(<<NL>> \o footer.v)

\* footer ? "\n" + footer : ""
FooterPart(footer) ==
    IF Truthy(footer) THEN StrV(<<NL>> \o footer.v) ELSE Empty

\* Every item rendered with the first image.
ImageContextFirst(ctx, i) ==
    ObjV([k \in (DOMAIN ctx.v) \cup {"image", "imageIndex", "imageTotal"} |->
             CASE k = "image" -> Prop(Prop(ctx, "images"), "0")
               [] k = "imageIndex" -> NumV(i)
               [] k = "imageTotal" -> NumV(Len(ctx.v["images"].v))
               [] OTHER -> ctx.v[k]])

\* The imgContext of item i in applyFormatting
ImageContext(ctx, i) ==
    ObjV([k \in (DOMAIN ctx.v) \cup {"image", "imageIndex", "imageTotal"} |->
             CASE k = "image" -> Prop(Prop(ctx, "images"), ToString(i - 1))
               [] k = "imageIndex" -> NumV(i)
               [] k = "imageTotal" -> NumV(Len(ctx.v["images"].v))
               [] OTHER -> ctx.v[k]])

\* [header, content, footer ? "\n" + footer : ""].filter(Boolean).join("")
JoinSingle(header, cont, footer) ==
    IF IsThrow(header) \/ IsThrow(footer) THEN Throw
    ELSE StrV(FilterJoin(<<header, cont, FooterPart(footer)>>))

\* One element of formattedImages in applyFormatting: a text value, or Throw
FormatImage(st, text, ctx, i) ==
    JoinSingle(formatTemplate(st.batchImageHeaderTemplate, ImageContext(ctx, i)), text,
        formatTemplate(st.batchImageFooterTemplate, ImageContext(ctx, i)))

\* [batchHeader, ...formattedImages, batchFooter].filter(Boolean).join("")
JoinBatch(batchHeader, formattedImages, batchFooter) ==
    IF \/ IsThrow(batchHeader) \/ IsThrow(batchFooter)
       \/ \E i \in 1..Len(formattedImages) : IsThrow(formattedImages[i])
    THEN Throw
    ELSE StrV(FilterJoin(<<batchHeader>> \o formattedImages \o <<batchFooter>>))

\* applyFormatting(plugin, content, context): a text value, or Throw
applyFormatting(st, cont, ctx) ==
    IF HasImages(ctx) /\ cont.t = "array"
    THEN JoinBatch(formatTemplate(st.batchHeaderTemplate, ctx),
             [i \in 1..Len(cont.v) |-> FormatImage(st, cont.v[i], ctx, i)],
             formatTemplate(st.batchFooterTemplate, ctx))
    ELSE JoinSingle(formatTemplate(st.headerTemplate, ctx), cont,
             formatTemplate(st.footerTemplate, ctx))


\* [header, content, footer].filter(Boolean).join("")
JoinPlain(header, cont, footer) ==
    IF IsThrow(header) \/ IsThrow(footer) THEN Throw
    ELSE StrV(FilterJoin(<<header, cont, footer>>))

\* One element of formattedImages in the applyFormatting that joins the
\* footers as they are.
FormatImagePlain(st, text, ctx, i) ==
    JoinPlain(formatTemplate(st.batchImageHeaderTemplate, ImageContext(ctx, i)), text,
        formatTemplate(st.batchImageFooterTemplate, ImageContext(ctx, i)))

\* applyFormatting(plugin, content, context) as utils/helpers.ts has it:
\* no line break is put before a footer.
applyFormattingPlain(st, cont, ctx) ==
    IF HasImages(ctx) /\ cont.t = "array"
    THEN JoinBatch(formatTemplate(st.batchHeaderTemplate, ctx),
             [i \in 1..Len(cont.v) |-> FormatImagePlain(st, cont.v[i], ctx, i)],
             formatTemplate(st.batchFooterTemplate, ctx))
    ELSE JoinPlain(formatTemplate(st.headerTemplate, ctx), cont,
             formatTemplate(st.footerTemplate, ctx))

(***************************************************************************)
(* Settings, editor and vault.                                             *)
(***************************************************************************)
\* The settings a fresh installation starts with.  The footer and batch
\* settings are those handleExtractedContent and applyFormatting read; they
\* start like their single-image counterparts.
DEFAULT_SETTINGS ==
    [provider |-> "openai", openaiApiKey |-> "", geminiApiKey |-> "",
     ollamaUrl |-> "http://localhost:11434", ollamaModel |-> "llama3.2-vision",
     lmstudioUrl |-> "http://localhost:1234", lmstudioModel |-> "google/gemma-3-4b",
     customApiUrl |-> "", customApiModel |-> "", customApiKey |-> "",
     customPrompt |-> <<>>, batchCustomPrompt |-> <<>>,
     outputToNewNote |-> FALSE, batchOutputToNewNote |-> FALSE,
     noteFolderPath |-> <<>>, batchNoteFolderPath |-> <<>>,
     noteNameTemplate |-> <<"Extracted OCR ", OPEN, "YYYY", "-", "MM", "-", "DD", SP, "HH", "-", "mm", "-", "ss", CLOSE>>,
     batchNoteNameTemplate |-> <<"Extracted OCR ", OPEN, "YYYY", "-", "MM", "-", "DD", SP, "HH", "-", "mm", "-", "ss", CLOSE>>,
     appendIfExists |-> FALSE, batchAppendIfExists |-> FALSE,
     headerTemplate |-> <<>>, footerTemplate |-> <<>>,
     batchHeaderTemplate |-> <<>>, batchFooterTemplate |-> <<>>,
     batchImageHeaderTemplate |-> <<>>, batchImageFooterTemplate |-> <<>>]

\* An editor: the document, and the selection as offsets (anchor, head);
\* head is where the cursor is.
NoEditor == [present |-> FALSE, doc |-> <<>>, anchor |-> 0, head |-> 0]
EditorOf(doc, anchor, head) ==
    [present |-> TRUE, doc |-> doc, anchor |-> anchor, head |-> head]

SelFrom(ed) == IF ed.anchor <= ed.head THEN ed.anchor ELSE ed.head
SelTo(ed) == IF ed.anchor <= ed.head THEN ed.head ELSE ed.anchor

\* editor.replaceSelection(text): the selected span is replaced and the
\* cursor is left after the inserted text.
replaceSelection(ed, text) ==
    [ed EXCEPT !.doc = SubSeq(ed.doc, 1, SelFrom(ed)) \o text
                          \o SubSeq(ed.doc, SelTo(ed) + 1, Len(ed.doc)),
               !.anchor = SelFrom(ed) + Len(text),
               !.head = SelFrom(ed) + Len(text)]

\* editor.setCursor(editor.offsetToPos(offset)): offsets past the end of the
\* document name its end.
setCursorOffset(ed, offset) ==
    LET o == IF offset > Len(ed.doc) THEN Len(ed.doc) ELSE offset
    IN  [ed EXCEPT !.anchor = o, !.head = o]

\* The inline branch of handleExtractedContent on an editor.
InsertInline(ed, text) ==
    setCursorOffset(replaceSelection(ed, text), ed.head + Len(text))

SLASH == "/"

\* folder ? `${folder}/${name}.md` : `${name}.md`
NotePath(folder, name) ==
    IF folder # <<>> THEN folder \o <<SLASH>> \o name \o <<MD>> ELSE name \o <<MD>>

\* vault.getAbstractFileByPath(path) is not null
Exists(v, fs, path) == path \in DOMAIN v \/ path \in fs
\* vault.getAbstractFileByPath(path) instanceof TFile
IsFile(v, path) == path \in DOMAIN v

\* `${base} ${counter}${ext}` under the folder
SuffixedPath(folder, base, counter) ==
    IF folder # <<>>
    THEN folder \o <<SLASH>> \o base \o <<SP, ToString(counter), MD>>
    ELSE base \o <<SP, ToString(counter), MD>>

RECURSIVE UniqueFrom(_, _, _, _, _)
\* The while loop of the create-unique branch, entered with uniquePath
\* taken and the counter at `counter`.
UniqueFrom(v, fs, folder, base, counter) ==
    IF Exists(v, fs, SuffixedPath(folder, base, counter))
    THEN UniqueFrom(v, fs, folder, base, counter + 1)
    ELSE SuffixedPath(folder, base, counter)

\* The first suffixed path, taken without looking it up.
UniquePathFirst(v, fs, folder, base) == SuffixedPath(folder, base, 1)

\* The path the create-unique branch settles on.
UniquePath(v, fs, folder, base) ==
    IF Exists(v, fs, NotePath(folder, base))
    THEN UniqueFrom(v, fs, folder, base, 1)
    ELSE NotePath(folder, base)

\* The vault with a note written at path.
WithNote(v, path, text) ==
    [q \in (DOMAIN v) \cup {path} |-> IF q = path THEN text ELSE v[q]]

NoTarget == [name |-> <<>>, folder |-> <<>>, path |-> <<>>, write |-> <<>>, branch |-> "none"]


(***************************************************************************)
(* The commands.                                                           *)
(***************************************************************************)
Notify(text) == notices' = Append(notices, text)

NO_FILE_SELECTED == "No file selected."
NO_CONTENT == "No content returned."
NO_IMAGES == "No valid images could be prepared."
FAILED_SINGLE == "Failed to extract text."
FAILED_BATCH == "Failed to extract text from images."
NO_EDITOR == "No active editor to paste into."
FOLDER_FAILED == "Failed to create folder."
NOTE_FAILED == "Failed to create note."

\* arrayBufferToBase64 of the bytes of an image: files of different names
\* hold different bytes.
Base64Of(name) == <<"base64:">> \o name

\* A File the user picked, as the commands read it.
ImageFile(name) ==
    [name |-> name, base64 |-> Base64Of(name), mime |-> <<"image/png">>, size |-> Len(name),
     path |-> name]

\* The PreparedImage extractTextFromBase64 builds around its argument.
InlineImage(base64) ==
    [name |-> <<"image", DOT, "jpg">>, base64 |-> base64, mime |-> <<"image/jpeg">>,
     path |-> <<"inline">>]

\* The descriptor the commands hand to buildOCRContext for a file.
Descriptor(img) ==
    [name |-> StripExtension(img.name), extension |-> ExtensionOf(img.name),
     path |-> img.path, size |-> img.size, mime |-> img.mime]

\* The batchPrompt of extractTextFromImageFolder.
BatchPrompt(st) ==
    (IF Trim(st.batchCustomPrompt) = <<>> THEN DEFAULT_BATCH_PROMPT_TEXT
     ELSE Trim(st.batchCustomPrompt))
        \o <<NL, NL, "For each image, wrap the response using the following format:",
             NL, NL, BEGIN_MARK, NL, "<insert OCR text>", NL, END_MARK, NL, NL,
             "Repeat this for each image.", NL>>

\* The notices are shown and a request is sent all the same.
NoticeAndGoOn(shown) ==
    /\ notices' = notices \o shown
    /\ prepared' = <<ImageFile(<<"image", DOT, "jpg">>)>>
    /\ provider' = getProvider(settings)
    /\ request' = BuildRequest(provider', <<InlineImage(prepared'[1].base64)>>,
                      provider'.prompt)
    /\ pc' = "awaitProvider"

\* new Notice(...); return;  before getProvider is reached: the command
\* ends with the notices shown and nothing prepared or sent.
NoticeAndReturn(shown) ==
    /\ notices' = notices \o shown
    /\ pc' = "done"
    /\ UNCHANGED <<prepared, provider, request>>

\* extract-text-from-image, up to the provider call: the user picks a file
\* (or none), the provider is built and extractTextFromBase64 sends its
\* request.
SelectImageFile(files) ==
    /\ pc = "idle"
    /\ cmd = "single"
    /\ \/ NoticeAndReturn(<<NO_FILE_SELECTED>>)
       \/ \E f \in files :
             /\ prepared' = <<ImageFile(f)>>
             /\ provider' = getProvider(settings)
             /\ request' = BuildRequest(provider', <<InlineImage(prepared'[1].base64)>>,
                               provider'.prompt)
             /\ pc' = "awaitProvider"
             /\ UNCHANGED notices
    /\ UNCHANGED <<settings, cmd, outcome, results, response, thrown, matches,
                   content, context, finalContent, target, editor, vault,
                   folders, vault0, calls, tpl>>

\* extractTextFromImageFolder, up to the provider call, with prov the
\* provider this.getProvider() returns: the images of the picked folder are
\* prepared and sent in one request with the batch prompt, or the first
\* image alone is sent if the provider has no `process`.
SelectFolderWith(folderLists, prov) ==
    /\ pc = "idle"
    /\ cmd = "batch"
    /\ \/ /\ pc' = "done"
          /\ UNCHANGED <<prepared, provider, request, notices>>
       \/ \E fl \in folderLists :
          IF fl = <<>>
          THEN NoticeAndReturn(<<NO_IMAGES>>)
          ELSE /\ prepared' = [i \in 1..Len(fl) |-> ImageFile(fl[i])]
               /\ provider' = prov
               /\ request' =
                     IF provider'.hasProcess
                     THEN BuildRequest(provider', prepared', BatchPrompt(settings))
                     ELSE BuildRequest(provider', <<InlineImage(prepared'[1].base64)>>,
                              provider'.prompt)
               /\ pc' = "awaitProvider"
               /\ UNCHANGED notices
    /\ UNCHANGED <<settings, cmd, outcome, results, response, thrown, matches,
                   content, context, finalContent, target, editor, vault,
                   folders, vault0, calls, tpl>>

\* extractTextFromImageFolder with the provider getProvider builds.
SelectFolder(folderLists) == SelectFolderWith(folderLists, getProvider(settings))

\* The content with the array kept for a single match.
BatchContentArray(resp, ms) ==
    IF Len(ms) > 0 THEN ArrV([i \in 1..Len(ms) |-> StrV(ms[i])])
    ELSE StrV(Trim(resp))

\* The content and context extractTextFromImageFolder hands on for a
\* response with the given matches.
BatchContent(resp, ms) ==
    IF Len(ms) > 1 THEN ArrV([i \in 1..Len(ms) |-> StrV(ms[i])])
    ELSE IF Len(ms) = 1 THEN StrV(ms[1])
    ELSE StrV(Trim(resp))

\* The context built from all prepared images whatever the match count.
BatchContextImages(st, prov, imgs, ms) ==
    buildOCRContext(st.provider, prov.model, BatchPrompt(st),
        [i \in 1..Len(imgs) |-> Descriptor(imgs[i])], NoImage)

BatchContext(st, prov, imgs, ms) ==
    IF Len(ms) > 1
    THEN buildOCRContext(st.provider, prov.model, BatchPrompt(st),
             [i \in 1..Len(imgs) |-> Descriptor(imgs[i])], NoImage)
    ELSE buildOCRContext(st.provider, prov.model, BatchPrompt(st),
             NoImages, Descriptor(imgs[1]))

\* The provider with its `process` taken away: the OpenAIProvider and
\* GeminiProvider classes that define extractTextFromBase64 alone.
WithoutProcess(prov) == [prov EXCEPT !.hasProcess = FALSE]

\* extractTextFromBase64 of a provider without `process`, once the transport
\* call has settled as o: the trimmed text if there is any, else null.
extractTextFromBase64(prov, o) ==
    IF IsThrow(ProcessTry(prov, o)) \/ ~Truthy(ProcessTry(prov, o)) THEN Null
    ELSE ProcessTry(prov, o)

\* provider.process ? process(...) : extractTextFromBase64(...) ?? ""
ProviderCall(prov, o) ==
    IF prov.hasProcess THEN Process(prov, o)
    ELSE Coalesce(extractTextFromBase64(prov, o), Empty)

\* The transport call settles as o and the command runs on to its next
\* await: process returns, then the single-image command checks the content
\* and builds its context, and the batch command parses the response.
Settle(o, res) ==
    /\ pc = "awaitProvider"
    /\ cmd \in {"single", "batch"}
    /\ outcome' = o
    /\ results' = res
    /\ LET r == ProviderCall(provider, o)
       IN  IF IsThrow(r)
           THEN /\ thrown' = TRUE
                /\ pc' = "rejected"
                /\ UNCHANGED <<response, matches, content, context, notices>>
           ELSE /\ response' = r.v
                /\ thrown' = thrown
                /\ IF cmd = "batch"
                   THEN /\ matches' = ParseBatch(r.v)
                        /\ content' = BatchContent(r.v, matches')
                        /\ context' = BatchContext(settings, provider, prepared, matches')
                        /\ pc' = "handle"
                        /\ UNCHANGED notices
                   ELSE IF r.v # <<>>
                   THEN /\ content' = r
                        /\ context' = buildOCRContext(settings.provider, provider.model,
                                          settings.customPrompt, NoImages,
                                          Descriptor(prepared[1]))
                        /\ pc' = "handle"
                        /\ UNCHANGED <<matches, notices>>
                   ELSE /\ Notify(NO_CONTENT)
                        /\ pc' = "done"
                        /\ UNCHANGED <<matches, content, context>>
    /\ UNCHANGED <<settings, cmd, provider, prepared, request, finalContent,
                   target, editor, vault, folders, vault0, calls, tpl>>


(***************************************************************************)
(* The embedded-image command.  An embed is written with the tokens "![["  *)
(* and "]]" (wiki form) or "![", "](" and ")" (markdown form); a link or a *)
(* text between them is a run of other tokens.                             *)
(***************************************************************************)
EMBED_OPEN == "![["
EMBED_CLOSE == "]]"
LINK_OPEN == "!["
LINK_MID == "]("
LINK_CLOSE == ")"
PIPE == "|"
HTTPS == "https://"

RECURSIVE GapMatch(_, _, _, _, _)
\* The rest of a pattern made of lazy gaps and literals, matched from pos:
\* the positions of the literals, each gap as short as the rest allows, or
\* <<0>> if there is no match.  mins[k] is the least length of the k-th gap
\* (0 for *?, 1 for +?) and stops[k] the tokens it may not hold.
GapMatch(s, pos, lits, mins, stops) ==
    IF lits = <<>> THEN <<>>
    ELSE LET ends == {j \in (pos + Head(mins))..Len(s) :
                        /\ s[j] = Head(lits)
                        /\ \A k \in pos..(j - 1) : s[k] \notin Head(stops)
                        /\ GapMatch(s, j + 1, Tail(lits), Tail(mins), Tail(stops)) # <<0>>}
         IN  IF ends = {} THEN <<0>>
             ELSE <<Min(ends)>>
                     \o GapMatch(s, Min(ends) + 1, Tail(lits), Tail(mins), Tail(stops))

\* s.match(pattern): the positions of the literals of the leftmost match,
\* <<>> for null.
RegexMatch(s, lits, mins, stops) ==
    LET starts == {i \in 1..Len(s) :
                      /\ s[i] = Head(lits)
                      /\ GapMatch(s, i + 1, Tail(lits), mins, stops) # <<0>>}
    IN  IF starts = {} THEN <<>>
        ELSE <<Min(starts)>> \o GapMatch(s, Min(starts) + 1, Tail(lits), mins, stops)

WikiLits == <<EMBED_OPEN, EMBED_CLOSE>>
LinkLits == <<LINK_OPEN, LINK_MID, LINK_CLOSE>>
Dot == {NL}
NotBracket == {EMBED_CLOSE, LINK_MID}

\* The text before the first token c (all of it if there is none):
\* s.split(c)[0]
SplitFirst(s, c) ==
    IF \E i \in 1..Len(s) : s[i] = c
    THEN SubSeq(s, 1, Min({i \in 1..Len(s) : s[i] = c}) - 1)
    ELSE s

\* The embed findRelevantImageEmbed reads in one text (the selection or a
\* line): /!\[\[(.+?)\]\]/ first, /!\[.*?\]\((.+?)\)/ second.
EmbedIn(text) ==
    LET w == RegexMatch(text, WikiLits, <<1>>, <<Dot>>)
        m == RegexMatch(text, LinkLits, <<0, 1>>, <<Dot, Dot>>)
    IN  IF w # <<>>
        THEN [found |-> TRUE, isExternal |-> FALSE,
              link |-> Trim(SplitFirst(SubSeq(text, w[1] + 1, w[2] - 1), PIPE))]
        ELSE IF m # <<>>
        THEN [found |-> TRUE,
              isExternal |-> SplitFirst(SubSeq(text, m[2] + 1, m[3] - 1), SP) # <<>>
                             /\ Head(SplitFirst(SubSeq(text, m[2] + 1, m[3] - 1), SP)) = HTTPS,
              link |-> SplitFirst(SubSeq(text, m[2] + 1, m[3] - 1), SP)]
        ELSE [found |-> FALSE, isExternal |-> FALSE, link |-> <<>>]

\* editor.getSelection()
getSelection(ed) == SubSeq(ed.doc, SelFrom(ed) + 1, SelTo(ed))

\* The number of the line an offset is on, and editor.getLine(n).
LineAt(doc, offset) == Cardinality({i \in 1..Min({offset, Len(doc)}) : doc[i] = NL})
LineStart(doc, n) ==
    IF n = 0 THEN 1
    ELSE CHOOSE i \in 1..(Len(doc) + 1) :
            /\ i > 1
            /\ doc[i - 1] = NL
            /\ Cardinality({k \in 1..(i - 1) : doc[k] = NL}) = n
getLine(doc, n) == SplitFirst(SubSeq(doc, LineStart(doc, n), Len(doc)), NL)

RECURSIVE ScanUp(_, _)
\* The loop of findRelevantImageEmbed from line i up to line 0.
ScanUp(doc, i) ==
    IF i < 0 THEN EmbedIn(<<>>)
    ELSE IF EmbedIn(getLine(doc, i)).found THEN EmbedIn(getLine(doc, i))
    ELSE ScanUp(doc, i - 1)

\* The lines above the cursor line are not looked at.
findRelevantImageEmbedCursorLine(ed) ==
    IF EmbedIn(getSelection(ed)).found THEN EmbedIn(getSelection(ed))
    ELSE EmbedIn(getLine(ed.doc, LineAt(ed.doc, ed.head)))

\* findRelevantImageEmbed(editor)
findRelevantImageEmbed(ed) ==
    IF EmbedIn(getSelection(ed)).found THEN EmbedIn(getSelection(ed))
    ELSE ScanUp(ed.doc, LineAt(ed.doc, ed.head))

\* The name of a file: its path after the last slash.
BaseName(path) ==
    IF \E i \in 1..Len(path) : path[i] = SLASH
    THEN SubSeq(path, Max({i \in 1..Len(path) : path[i] = SLASH}) + 1, Len(path))
    ELSE path

\* resolveInternalImagePath(app, link): the file at the path, else the first
\* file of that name in the order of vault.getFiles(), which the vault
\* decides; the empty set stands for null.
resolveInternalImagePath(v, link) ==
    IF IsFile(v, link) THEN {link}
    ELSE {q \in DOMAIN v : BaseName(q) = link}

\* url.lastIndexOf("/"); the scheme of a URL ends with slashes.
LastSlash(url) ==
    IF \E i \in 1..Len(url) : url[i] \in {SLASH, HTTPS}
    THEN Max({i \in 1..Len(url) : url[i] \in {SLASH, HTTPS}})
    ELSE 0

\* The name, extension and path parseEmbedInfo derives from a url.
EmbedInfoOf(url, altText) ==
    IF LastDot(url) > 0 /\ LastDot(url) > LastSlash(url)
    THEN [name |-> SubSeq(url, LastSlash(url) + 1, LastDot(url) - 1),
          extension |-> SubSeq(url, LastDot(url) + 1, Len(url)),
          path |-> url, altText |-> altText]
    ELSE IF LastSlash(url) > 0
    THEN [name |-> SubSeq(url, LastSlash(url) + 1, Len(url)),
          extension |-> <<>>, path |-> url, altText |-> altText]
    ELSE [name |-> url, extension |-> <<>>, path |-> url, altText |-> altText]

\* The text after the first token c, <<>> if there is none.
AfterFirst(s, c) ==
    IF \E i \in 1..Len(s) : s[i] = c
    THEN SubSeq(s, Min({i \in 1..Len(s) : s[i] = c}) + 1, Len(s))
    ELSE <<>>

\* parseEmbedInfo(embedMarkdown, link): /!\[([^\]]*)\]\(([^)]+)\)/ first,
\* /!\[\[([^\]|]+)(?:\|([^\]]+))?\]\]/ second, the link if neither matches.
parseEmbedInfo(embedMarkdown, link) ==
    LET m == RegexMatch(embedMarkdown, LinkLits, <<0, 1>>, <<NotBracket, {LINK_CLOSE}>>)
        w == RegexMatch(embedMarkdown, WikiLits, <<1>>, <<NotBracket>>)
    IN  IF m # <<>>
        THEN EmbedInfoOf(SubSeq(embedMarkdown, m[2] + 1, m[3] - 1),
                         SubSeq(embedMarkdown, m[1] + 1, m[2] - 1))
        ELSE IF w # <<>>
                /\ SplitFirst(SubSeq(embedMarkdown, w[1] + 1, w[2] - 1), PIPE) # <<>>
                /\ (SplitFirst(SubSeq(embedMarkdown, w[1] + 1, w[2] - 1), PIPE)
                        = SubSeq(embedMarkdown, w[1] + 1, w[2] - 1)
                    \/ AfterFirst(SubSeq(embedMarkdown, w[1] + 1, w[2] - 1), PIPE) # <<>>)
        THEN EmbedInfoOf(SplitFirst(SubSeq(embedMarkdown, w[1] + 1, w[2] - 1), PIPE),
                         AfterFirst(SubSeq(embedMarkdown, w[1] + 1, w[2] - 1), PIPE))
        ELSE EmbedInfoOf(link, <<>>)

\* fileName.split(".").pop()?.toLowerCase()
LowerExt(fileName) ==
    CASE LastSegment(fileName) \in {<<"png">>, <<"PNG">>} -> <<"png">>
      [] LastSegment(fileName) \in {<<"jpg">>, <<"JPG">>} -> <<"jpg">>
      [] OTHER -> LastSegment(fileName)

\* getImageMimeType(fileName)
getImageMimeType(fileName) ==
    CASE LowerExt(fileName) = <<"png">> -> <<"image/png">>
      [] LowerExt(fileName) \in {<<"jpg">>, <<"jpeg">>} -> <<"image/jpeg">>
      [] LowerExt(fileName) = <<"webp">> -> <<"image/webp">>
      [] LowerExt(fileName) = <<"gif">> -> <<"image/gif">>
      [] LowerExt(fileName) = <<"bmp">> -> <<"image/bmp">>
      [] LowerExt(fileName) = <<"svg">> -> <<"image/svg+xml">>
      [] OTHER -> <<"application/octet-stream">>

\* The selection is never taken for an embed on its own.
EmbedExactNever(sel) == FALSE

\* embedMatch && sel === embedMatch[0], with embedMatch the first match of
\* /!\[\[.*?\]\]/ in the selection, or else of /!\[.*?\]\(.*?\)/.
EmbedExact(sel) ==
    LET w == RegexMatch(sel, WikiLits, <<0>>, <<Dot>>)
        m == RegexMatch(sel, LinkLits, <<0, 0>>, <<Dot, Dot>>)
    IN  IF w # <<>> THEN w[1] = 1 /\ w[2] = Len(sel)
        ELSE m # <<>> /\ m[1] = 1 /\ m[3] = Len(sel)

NO_EMBED == "No image embed found."
FETCH_FAILED == "Failed to fetch image."
NOT_IN_VAULT == "Image file not found in vault."
NO_IMAGE_DATA == "Could not read image data."

\* What the embed callback holds across its awaits: the selection it read,
\* the link of the embed and the length of the image data.
EmbedLocals(sel, link, byteLength) ==
    [name |-> link, base64 |-> Base64Of(link), mime |-> getImageMimeType(link),
     size |-> byteLength, path |-> link, sel |-> sel]

\* The embed context of the embedded-image command: buildOCRContext for the
\* parsed embed, with `embed` added.
EmbedContext(st, prov, locals) ==
    LET info == parseEmbedInfo(locals.sel, locals.path)
    IN  ObjV(buildOCRContext(st.provider, prov.model, st.customPrompt, NoImages,
                 [name |-> info.name, extension |-> info.extension, path |-> info.path,
                  size |-> locals.size, mime |-> getImageMimeType(info.path)]).v
             @@ [embed |-> ObjV([name |-> StrV(info.name),
                                 extension |-> StrV(info.extension),
                                 path |-> StrV(info.path),
                                 altText |-> StrV(info.altText)])])

\* extract-text-from-embedded-image, up to the provider call: the embed is
\* found, the image is fetched or read, and extractTextFromBase64 sends its
\* request.  byteLengths are the lengths an external image may have.
EmbedStart(byteLengths) ==
    /\ pc = "idle"
    /\ cmd = "embed"
    /\ LET embed == findRelevantImageEmbed(editor)
       IN  IF ~embed.found
           THEN /\ NoticeAndReturn(<<NO_EMBED>>)
                /\ UNCHANGED thrown
           ELSE IF embed.isExternal
           THEN \/ /\ NoticeAndReturn(<<FETCH_FAILED, NO_IMAGE_DATA>>)
                   /\ UNCHANGED thrown
                \/ \E n \in byteLengths :
                      /\ prepared' = <<EmbedLocals(getSelection(editor), embed.link, n)>>
                      /\ provider' = getProvider(settings)
                      /\ request' = BuildRequest(provider', <<InlineImage(prepared'[1].base64)>>,
                                        provider'.prompt)
                      /\ pc' = "awaitProvider"
                      /\ UNCHANGED <<notices, thrown>>
           ELSE IF resolveInternalImagePath(vault, embed.link) = {}
           THEN /\ NoticeAndReturn(<<NOT_IN_VAULT>>)
                /\ UNCHANGED thrown
           ELSE \/ \E f \in resolveInternalImagePath(vault, embed.link) :
                      /\ prepared' = <<EmbedLocals(getSelection(editor), embed.link,
                                           Len(vault[f]))>>
                      /\ provider' = getProvider(settings)
                      /\ request' = BuildRequest(provider', <<InlineImage(prepared'[1].base64)>>,
                                        provider'.prompt)
                      /\ pc' = "awaitProvider"
                      /\ UNCHANGED <<notices, thrown>>
                \/ /\ thrown' = TRUE
                   /\ pc' = "escaped"
                   /\ UNCHANGED <<prepared, provider, request, notices>>
    /\ UNCHANGED <<settings, cmd, outcome, results, response, matches, content,
                   context, finalContent, target, editor, vault, folders, vault0, calls, tpl>>

\* The transport call of the embedded-image command settles as o: without
\* content the user is told; a selection that is the embed alone is replaced
\* by the content; otherwise handleExtractedContent is entered.
EmbedSettle(o, res) ==
    /\ pc = "awaitProvider"
    /\ cmd = "embed"
    /\ outcome' = o
    /\ results' = res
    /\ LET r == Process(provider, o)
       IN  IF IsThrow(r)
           THEN /\ thrown' = TRUE
                /\ pc' = "rejected"
                /\ UNCHANGED <<response, content, context, notices, editor>>
           ELSE /\ response' = r.v
                /\ thrown' = thrown
                /\ IF r.v = <<>>
                   THEN /\ Notify(NO_CONTENT)
                        /\ pc' = "done"
                        /\ UNCHANGED <<content, context, editor>>
                   ELSE /\ content' = r
                        /\ context' = EmbedContext(settings, provider, prepared[1])
                        /\ UNCHANGED notices
                        /\ IF EmbedExact(prepared[1].sel)
                           THEN /\ editor' = replaceSelection(editor, r.v)
                                /\ pc' = "done"
                           ELSE /\ pc' = "handle"
                                /\ UNCHANGED editor
    /\ UNCHANGED <<settings, cmd, provider, prepared, request, matches, finalContent,
                   target, vault, folders, vault0, calls, tpl>>


(***************************************************************************)
(* Output router: handleExtractedContent, one action per stretch between   *)
(* two awaits.                                                             *)
(***************************************************************************)
\* The lookup of the note path and the storage call it leads to: read (to
\* append), create at a unique path, or create at the path itself.
Lookup(st, ctx, v, fs, name, folder) ==
    LET path == NotePath(folder, name)
        append == IF HasImages(ctx) THEN st.batchAppendIfExists ELSE st.appendIfExists
    IN  IF IsFile(v, path)
        THEN IF append
             THEN [name |-> name, folder |-> folder, path |-> path,
                   write |-> path, branch |-> "append"]
             ELSE [name |-> name, folder |-> folder, path |-> path,
                   write |-> UniquePath(v, fs, folder, name), branch |-> "unique"]
        ELSE [name |-> name, folder |-> folder, path |-> path,
              write |-> path, branch |-> "create"]

AwaitOf(branch) ==
    CASE branch = "append" -> "read"
      [] branch = "unique" -> "createUnique"
      [] branch = "create" -> "create"

\* A missing editor goes unreported.
InlineOutputSilent(text) ==
    /\ editor' = IF editor.present THEN InsertInline(editor, text) ELSE editor
    /\ UNCHANGED notices

\* The inline branch of handleExtractedContent: the text goes into the
\* editor, or the user is told that there is none.
InlineOutput(text) ==
    IF editor.present
    THEN /\ editor' = InsertInline(editor, text)
         /\ UNCHANGED notices
    ELSE /\ Notify(NO_EDITOR)
         /\ UNCHANGED editor

\* handleExtractedContent from its entry to its first await (or its return)
\* for the formatted content fc, the note name and the folder: the inline
\* branch, or the first storage call.
HandleWith(fc, toNote, name, folderV) ==
    IF IsThrow(fc) \/ (toNote /\ (IsThrow(name) \/ IsThrow(folderV)))
    THEN /\ thrown' = TRUE
         /\ pc' = "rejected"
         /\ finalContent' = IF IsThrow(fc) THEN finalContent ELSE fc.v
         /\ UNCHANGED <<editor, notices, target>>
    ELSE /\ finalContent' = fc.v
         /\ thrown' = thrown
         /\ IF ~toNote
            THEN /\ pc' = "done"
                 /\ target' = [target EXCEPT !.branch = "inline"]
                 /\ InlineOutput(fc.v)
            ELSE /\ UNCHANGED <<editor, notices>>
                 /\ IF Trim(folderV.v) # <<>>
                       /\ ~Exists(vault, folders, Trim(folderV.v))
                    THEN /\ target' = [name |-> name.v, folder |-> Trim(folderV.v),
                                       path |-> NotePath(Trim(folderV.v), name.v),
                                       write |-> <<>>, branch |-> "folder"]
                         /\ pc' = "createFolder"
                    ELSE /\ target' = Lookup(settings, context, vault, folders,
                                          name.v, Trim(folderV.v))
                         /\ pc' = AwaitOf(target'.branch)

\* handleExtractedContent is entered: the content is formatted, and the
\* note name and folder are rendered from the templates of the mode.
HandleStart ==
    /\ pc = "handle"
    /\ IF HasImages(context)
       THEN HandleWith(applyFormatting(settings, content, context),
                settings.batchOutputToNewNote,
                formatTemplate(settings.batchNoteNameTemplate, context),
                formatTemplate(settings.batchNoteFolderPath, context))
       ELSE HandleWith(applyFormatting(settings, content, context),
                settings.outputToNewNote,
                formatTemplate(settings.noteNameTemplate, context),
                formatTemplate(settings.noteFolderPath, context))
    /\ UNCHANGED <<settings, cmd, provider, prepared, request, outcome, results,
                   response, matches, content, context, vault, folders, vault0, calls, tpl>>

\* The failure is shown and the note is written all the same.
FolderFailedGoesOn ==
    /\ Notify(FOLDER_FAILED)
    /\ target' = Lookup(settings, context, vault, folders, target.name, target.folder)
    /\ pc' = AwaitOf(target'.branch)
    /\ UNCHANGED folders

\* The catch clause around vault.createFolder: notice and return.
FolderFailed ==
    /\ Notify(FOLDER_FAILED)
    /\ pc' = "done"
    /\ UNCHANGED <<folders, target>>

\* vault.createFolder settles: on success the note path is looked up and
\* the next storage call is made; on failure the user is told and the
\* invocation ends.
FolderSettles ==
    /\ pc = "createFolder"
    /\ \/ /\ folders' = folders \cup {target.folder}
          /\ target' = Lookup(settings, context, vault, folders', target.name, target.folder)
          /\ pc' = AwaitOf(target'.branch)
          /\ UNCHANGED notices
       \/ FolderFailed
    /\ UNCHANGED <<settings, cmd, provider, prepared, request, outcome, results,
                   response, thrown, matches, content, context, finalContent,
                   editor, vault, vault0, calls, tpl>>

\* The new content in place of the old.
AppendedOver(existing, text) == text

\* existing + "\n\n" + finalContent
Appended(existing, text) == existing \o <<NL, NL>> \o text

\* vault.read and vault.modify of the append branch settle.
AppendSettles ==
    /\ pc = "read"
    /\ \/ /\ vault' = [vault EXCEPT ![target.write] = Appended(@, finalContent)]
          /\ pc' = "open"
          /\ UNCHANGED thrown
       \/ /\ thrown' = TRUE
          /\ pc' = "rejected"
          /\ UNCHANGED vault
    /\ UNCHANGED <<settings, cmd, provider, prepared, request, outcome, results,
                   response, matches, content, context, finalContent, target,
                   editor, folders, vault0, calls, notices, tpl>>

\* vault.create at the unique path settles; its failure is not caught.
CreateUniqueSettles ==
    /\ pc = "createUnique"
    /\ \/ /\ ~Exists(vault, folders, target.write)
          /\ vault' = WithNote(vault, target.write, finalContent)
          /\ pc' = "open"
          /\ UNCHANGED thrown
       \/ /\ thrown' = TRUE
          /\ pc' = "rejected"
          /\ UNCHANGED vault
    /\ UNCHANGED <<settings, cmd, provider, prepared, request, outcome, results,
                   response, matches, content, context, finalContent, target,
                   editor, folders, vault0, calls, notices, tpl>>

\* vault.create at the note path settles; its failure is caught and shown.
CreateSettles ==
    /\ pc = "create"
    /\ \/ /\ ~Exists(vault, folders, target.write)
          /\ vault' = WithNote(vault, target.write, finalContent)
          /\ pc' = "open"
          /\ UNCHANGED notices
       \/ /\ Notify(NOTE_FAILED)
          /\ pc' = "done"
          /\ UNCHANGED vault
    /\ UNCHANGED <<settings, cmd, provider, prepared, request, outcome, results,
                   response, thrown, matches, content, context, finalContent,
                   target, editor, folders, vault0, calls, tpl>>

\* leaf.openFile settles: the note is shown with the cursor at its end.
OpenSettles ==
    /\ pc = "open"
    /\ \/ /\ editor' = EditorOf(vault[target.write], Len(vault[target.write]),
                           Len(vault[target.write]))
          /\ pc' = "done"
          /\ UNCHANGED thrown
       \/ /\ thrown' = TRUE
          /\ pc' = "rejected"
          /\ UNCHANGED editor
    /\ UNCHANGED <<settings, cmd, provider, prepared, request, outcome, results,
                   response, matches, content, context, finalContent, target,
                   vault, folders, vault0, calls, notices, tpl>>

\* The catch clause of the command around the provider call and
\* handleExtractedContent.
CommandCatch ==
    /\ pc = "rejected"
    /\ cmd \in {"single", "embed", "batch"}
    /\ Notify(IF cmd = "batch" THEN FAILED_BATCH ELSE FAILED_SINGLE)
    /\ pc' = "failed"
    /\ UNCHANGED <<settings, cmd, provider, prepared, request, outcome, results,
                   response, thrown, matches, content, context, finalContent,
                   target, editor, vault, folders, vault0, calls, tpl>>

(***************************************************************************)
(* handleExtractedContent called on its own, several invocations at a      *)
(* time: each is suspended at its awaits, where the others may run.        *)
(***************************************************************************)
\* An invocation handleExtractedContent(plugin, content, editor, context)
\* that has not run yet.
CallOf(cont, ctx) ==
    [pc |-> "enter", content |-> cont, context |-> ctx, finalContent |-> <<>>,
     path |-> <<>>, existing |-> <<>>]

\* The other invocations stay as they are.
CallBecomes(i, c) == calls' = [calls EXCEPT ![i] = c]

\* Invocation i runs from its entry to vault.read of the append branch: the
\* content is formatted and the note, which exists, is looked up.
CallEnter(i) ==
    /\ cmd = "handleExtractedContent"
    /\ calls[i].pc = "enter"
    /\ ~IsThrow(applyFormatting(settings, calls[i].content, calls[i].context))
    /\ ~IsThrow(formatTemplate(settings.noteNameTemplate, calls[i].context))
    /\ ~IsThrow(formatTemplate(settings.noteFolderPath, calls[i].context))
    /\ settings.outputToNewNote
    /\ Lookup(settings, calls[i].context, vault, folders,
           formatTemplate(settings.noteNameTemplate, calls[i].context).v,
           Trim(formatTemplate(settings.noteFolderPath, calls[i].context).v)).branch
          = "append"
    /\ CallBecomes(i, [calls[i] EXCEPT
           !.pc = "read",
           !.finalContent =
               applyFormatting(settings, calls[i].content, calls[i].context).v,
           !.path = NotePath(
               Trim(formatTemplate(settings.noteFolderPath, calls[i].context).v),
               formatTemplate(settings.noteNameTemplate, calls[i].context).v)])
    /\ UNCHANGED <<settings, cmd, pc, provider, prepared, request, outcome, results,
                   response, thrown, matches, content, context, finalContent, target,
                   editor, vault, folders, vault0, notices, tpl>>

\* vault.read of invocation i settles: with the content of the note at that
\* moment the invocation builds updatedContent and calls vault.modify; a
\* rejection leaves the function.
CallReadSettles(i) ==
    /\ cmd = "handleExtractedContent"
    /\ calls[i].pc = "read"
    /\ \/ CallBecomes(i, [calls[i] EXCEPT !.pc = "modify",
                                          !.existing = vault[calls[i].path]])
       \/ CallBecomes(i, [calls[i] EXCEPT !.pc = "rejected"])
    /\ UNCHANGED <<settings, cmd, pc, provider, prepared, request, outcome, results,
                   response, thrown, matches, content, context, finalContent, target,
                   editor, vault, folders, vault0, notices, tpl>>

\* vault.modify of invocation i settles: the note holds updatedContent.
CallModifySettles(i) ==
    /\ cmd = "handleExtractedContent"
    /\ calls[i].pc = "modify"
    /\ \/ /\ vault' = [vault EXCEPT ![calls[i].path] =
                          Appended(calls[i].existing, calls[i].finalContent)]
          /\ CallBecomes(i, [calls[i] EXCEPT !.pc = "open"])
       \/ /\ CallBecomes(i, [calls[i] EXCEPT !.pc = "rejected"])
          /\ UNCHANGED vault
    /\ UNCHANGED <<settings, cmd, pc, provider, prepared, request, outcome, results,
                   response, thrown, matches, content, context, finalContent, target,
                   editor, folders, vault0, notices, tpl>>

\* leaf.openFile of invocation i settles: the note is shown and the cursor
\* set to the length of updatedContent.
CallOpenSettles(i) ==
    /\ cmd = "handleExtractedContent"
    /\ calls[i].pc = "open"
    /\ \/ /\ editor' = setCursorOffset(EditorOf(vault[calls[i].path], 0, 0),
                           Len(Appended(calls[i].existing, calls[i].finalContent)))
          /\ CallBecomes(i, [calls[i] EXCEPT !.pc = "done"])
       \/ /\ CallBecomes(i, [calls[i] EXCEPT !.pc = "rejected"])
          /\ UNCHANGED editor
    /\ UNCHANGED <<settings, cmd, pc, provider, prepared, request, outcome, results,
                   response, thrown, matches, content, context, finalContent, target,
                   vault, folders, vault0, notices, tpl>>

(***************************************************************************)
(* formatTemplate and applyFormatting called on their own.                 *)
(***************************************************************************)
FormatTemplateCall ==
    /\ pc = "idle"
    /\ cmd = "formatTemplate"
    /\ LET r == formatTemplate(tpl.template, tpl.context)
       IN  /\ tpl' = [tpl EXCEPT !.result = IF IsThrow(r) THEN <<>> ELSE r.v]
           /\ thrown' = IsThrow(r)
    /\ pc' = "done"
    /\ UNCHANGED <<settings, cmd, provider, prepared, request, outcome, results,
                   response, matches, content, context, finalContent, target,
                   editor, vault, folders, vault0, calls, notices>>

ApplyFormattingCall ==
    /\ pc = "idle"
    /\ cmd = "applyFormatting"
    /\ LET r == applyFormatting(settings, content, context)
       IN  /\ finalContent' = IF IsThrow(r) THEN <<>> ELSE r.v
           /\ thrown' = IsThrow(r)
    /\ pc' = "done"
    /\ UNCHANGED <<settings, cmd, provider, prepared, request, outcome, results,
                   response, matches, content, context, target, editor, vault,
                   folders, vault0, calls, notices, tpl>>


ApplyFormattingPlainCall ==
    /\ pc = "idle"
    /\ cmd = "applyFormatting"
    /\ LET r == applyFormattingPlain(settings, content, context)
       IN  /\ finalContent' = IF IsThrow(r) THEN <<>> ELSE r.v
           /\ thrown' = IsThrow(r)
    /\ pc' = "done"
    /\ UNCHANGED <<settings, cmd, provider, prepared, request, outcome, results,
                   response, matches, content, context, target, editor, vault,
                   folders, vault0, calls, notices, tpl>>

\* buildOCRContext called on its own, in either of its two versions, with
\* the arguments held in tpl.
BuildContextCall ==
    /\ pc = "idle"
    /\ cmd = "buildOCRContext"
    /\ context' = buildOCRContext(settings.provider, provider.model, tpl.prompt,
                       tpl.images, tpl.singleImage)
    /\ pc' = "done"
    /\ UNCHANGED <<settings, cmd, provider, prepared, request, outcome, results,
                   response, thrown, matches, content, finalContent, target,
                   editor, vault, folders, vault0, calls, notices, tpl>>

BuildContextSpreadCall ==
    /\ pc = "idle"
    /\ cmd = "buildOCRContext"
    /\ context' = buildOCRContextSpread(settings.provider, provider.model, tpl.prompt,
                       tpl.images, tpl.singleImage)
    /\ pc' = "done"
    /\ UNCHANGED <<settings, cmd, provider, prepared, request, outcome, results,
                   response, thrown, matches, content, finalContent, target,
                   editor, vault, folders, vault0, calls, notices, tpl>>


(***************************************************************************)
(* Specifications.                                                         *)
(***************************************************************************)
NoContext == ObjV(<<>>)
NoTemplate == [template |-> <<>>, context |-> NoContext, result |-> <<>>]

\* The state before an operation c runs, for given settings, provider,
\* editor and vault, and the arguments of a function called on its own.
StartWith(st, c, prov, ed, v, fs, cont, ctx, t, cs) ==
    /\ settings = st
    /\ cmd = c
    /\ pc = "idle"
    /\ provider = prov
    /\ prepared = <<>>
    /\ request = NoRequest
    /\ outcome = NetworkError
    /\ results = <<>>
    /\ response = <<>>
    /\ thrown = FALSE
    /\ matches = <<>>
    /\ content = cont
    /\ context = ctx
    /\ finalContent = <<>>
    /\ target = NoTarget
    /\ editor = ed
    /\ vault = v
    /\ folders = fs
    /\ vault0 = v
    /\ calls = cs
    /\ notices = <<>>
    /\ tpl = t

\* The same with no invocation of handleExtractedContent on its own.
StartAt(st, c, prov, ed, v, fs, cont, ctx, t) ==
    StartWith(st, c, prov, ed, v, fs, cont, ctx, t, <<>>)

\* The state after construction, before a command runs.
Start(st, c, ed, v, fs) ==
    StartAt(st, c, getProvider(st), ed, v, fs, Empty, NoContext, NoTemplate)

\* A well-formed body of the provider's backend carrying text.
GoodBody(prov, text) ==
    CASE prov.class = "GeminiProvider" ->
            ObjV([candidates |-> ArrV(<<ObjV([content |->
                ObjV([parts |-> ArrV(<<ObjV([text |-> StrV(text)])>>)])])>>)])
      [] prov.provider = "ollama" ->
            ObjV([message |-> ObjV([role |-> StrV(<<"assistant">>), content |-> StrV(text)])])
      [] OTHER ->
            ObjV([choices |-> ArrV(<<ObjV([message |-> ObjV([content |-> StrV(text)])])>>)])

\* Transport failures and bodies no provider accepts.
FailureOutcomes ==
    {NetworkError, HttpError(401), HttpError(500), NotJson, JsonBody(Null),
     JsonBody(ObjV([error |-> StrV(<<"e">>)]))}

\* ---- the batch command ----
\* The i-th image file of the picked folder.
ImageNameAt(i) ==
    IF i % 2 = 1 THEN <<"scan", DOT, "PNG">> ELSE <<"a", DOT, "b", DOT, "jpg">>

\* The folders the user may pick: none to MaxImages images.
FolderLists == {[i \in 1..n |-> ImageNameAt(i)] : n \in 0..MaxImages}

\* Per-image texts a backend may wrap, some of them hostile to the protocol.
ResultTexts ==
    {<<>>, <<SP, "x">>, <<"x", SP, "y", NL>>, <<"x", NL, END_MARK>>, <<BEGIN_MARK, "x">>}

\* What a backend may say before the first wrapped result.
Prefaces == {<<>>, <<"n", NL>>}

BatchSettles ==
    \/ \E pre \in Prefaces, list \in ListsUpTo(ResultTexts, MaxResults) :
          Settle(JsonBody(GoodBody(provider, pre \o Wrap(list))), list)
    \/ \E o \in FailureOutcomes : Settle(o, <<>>)

InitBatch ==
    \E p \in {"openai", "ollama", "gemini"}, ed \in {NoEditor, EditorOf(<<"d">>, 0, 1)} :
        Start([DEFAULT_SETTINGS EXCEPT !.provider = p], "batch", ed, <<>>, {})

NextBatch ==
    \/ SelectFolder(FolderLists)
    \/ BatchSettles
    \/ HandleStart

SpecBatch == InitBatch /\ [][NextBatch]_vars

\* The batch command has parsed a response.
BatchParsed == cmd = "batch" /\ pc \notin {"idle", "awaitProvider"} /\ prepared # <<>>

\* The response is the wrapped results and nothing else.
WrappedOnly == response = Trim(Wrap(results))

Contains(s, c) == \E i \in 1..Len(s) : s[i] = c

RECURSIVE PairCount(_)
\* The number of begin/end sentinel pairs of s, read left to right.
PairCount(s) ==
    IF \E b \in 1..Len(s), e \in 1..Len(s) : s[b] = BEGIN_MARK /\ s[e] = END_MARK /\ b < e
    THEN LET b == Min({i \in 1..Len(s) : s[i] = BEGIN_MARK})
             e == Min({i \in (b + 1)..Len(s) : s[i] = END_MARK})
         IN  1 + PairCount(SubSeq(s, e + 1, Len(s)))
    ELSE 0

\* The text between the first begin marker and the first end marker after it.
Between(s) ==
    LET b == Min({i \in 1..Len(s) : s[i] = BEGIN_MARK})
        e == Min({i \in (b + 1)..Len(s) : s[i] = END_MARK})
    IN  SubSeq(s, b + 1, e - 1)

\* C1 as stated: K >= 2 wrapped results come back as exactly the K originals.
C1_RoundTripExact ==
    (BatchParsed /\ Len(results) >= 2 /\ WrappedOnly) => matches = results

\* C1, amended: K >= 2 wrapped results, none of which contains the end
\* sentinel, come back as exactly K strings, the i-th being the i-th
\* original with its leading and trailing blanks trimmed.
C1_RoundTripTrimmed ==
    (/\ BatchParsed
     /\ Len(results) >= 2
     /\ WrappedOnly
     /\ \A i \in 1..Len(results) : ~Contains(results[i], END_MARK))
        => /\ Len(matches) = Len(results)
           /\ \A i \in 1..Len(results) : matches[i] = Trim(results[i])

C1_Witness ==
    /\ BatchParsed
    /\ Len(results) = 2
    /\ WrappedOnly
    /\ results[1] = <<SP, "x">>
    /\ results[2] = <<"x", SP, "y", NL>>
    /\ matches = <<(<<"x">>), (<<"x", SP, "y">>)>>

\* C2: a response with exactly one sentinel pair is handed on as the
\* trimmed text between the markers, with a context that has `image` and
\* no `images`, however many images were submitted.
C2_SingleMatch ==
    (BatchParsed /\ PairCount(response) = 1)
        => /\ content = StrV(Trim(Between(response)))
           /\ HasImage(context)
           /\ ~HasImages(context)

C2_Witness ==
    /\ BatchParsed
    /\ pc = "handle"
    /\ Len(prepared) = 2
    /\ PairCount(response) = 1
    /\ content = StrV(<<"x">>)
    /\ HasImage(context)

\* C3: a response without a sentinel pair is handed on whole and trimmed,
\* with a single-image context, and nothing is raised.
C3_ZeroMatch ==
    (BatchParsed /\ PairCount(response) = 0)
        => /\ content = StrV(Trim(response))
           /\ HasImage(context)
           /\ ~HasImages(context)
           /\ ~thrown
           /\ pc \notin {"rejected", "failed"}

C3_Witness ==
    /\ BatchParsed
    /\ pc = "done"
    /\ Len(prepared) = 2
    /\ response = <<"n">>
    /\ content = StrV(<<"n">>)
    /\ editor.present
    /\ editor.doc = <<"n">>


\* ---- the provider adapters called on their own ----
Credentials == {"", "sk-1"}
Families == {"openai", "ollama", "lmstudio"}

\* Adapters as a caller may construct them, and as getProvider does.
Providers ==
    {OpenAIProviderNew(k, "m", "http://host", f, DEFAULT_PROMPT_TEXT) :
        k \in Credentials, f \in Families}
    \cup {GeminiProviderNew(k, "models/gemini-2.5-flash", DEFAULT_PROMPT_TEXT) :
        k \in Credentials}
    \cup {getProvider([DEFAULT_SETTINGS EXCEPT !.provider = p, !.openaiApiKey = "sk-1",
                          !.customApiKey = "sk-1"]) : p \in ProviderIds}

\* The backend whose response format an adapter reads.
Shape(prov) ==
    IF prov.class = "GeminiProvider" THEN "gemini"
    ELSE IF prov.provider = "ollama" THEN "ollama"
    ELSE "openai"

ReplyTexts == {<<"H">>, <<SP, "H", SP, "W", NL>>}

\* Bodies that parse as JSON and carry no text for any backend.
NoTextBodies ==
    {JsonBody(ObjV([choices |-> ArrV(<<>>)])),
     JsonBody(ObjV([choices |-> ArrV(<<ObjV([message |-> ObjV([content |-> StrV(<<SP>>)])])>>)])),
     JsonBody(ObjV([choices |-> ArrV(<<ObjV([message |-> ObjV([content |-> NumV(5)])])>>)])),
     JsonBody(ObjV([choices |-> StrV(<<"none">>)])),
     JsonBody(ObjV([message |-> ObjV([content |-> StrV(<<>>)])])),
     JsonBody(ObjV([message |-> ObjV([content |-> NumV(5)])])),
     JsonBody(ObjV([candidates |-> ArrV(<<>>)])),
     JsonBody(ObjV([candidates |-> ArrV(<<ObjV([content |-> ObjV([parts |-> ArrV(<<>>)])])>>)])),
     JsonBody(ObjV([candidates |-> ArrV(<<ObjV([content |->
         ObjV([parts |-> ArrV(<<ObjV([text |-> NumV(5)])>>)])])>>)]))}

BadOutcomes == FailureOutcomes \cup NoTextBodies

\* process(images, prompt) is called: the request is built and handed to
\* requestUrl.
ProcessCall(imageLists) ==
    /\ pc = "idle"
    /\ cmd = "process"
    /\ \E imgs \in imageLists :
          /\ prepared' = imgs
          /\ request' = BuildRequest(provider, imgs, provider.prompt)
    /\ pc' = "awaitProvider"
    /\ UNCHANGED <<settings, cmd, provider, outcome, results, response, thrown,
                   matches, content, context, finalContent, target, editor,
                   vault, folders, vault0, calls, notices, tpl>>

\* The transport call settles and process returns to its caller, or throws.
ProcessReturns(outcomes) ==
    /\ pc = "awaitProvider"
    /\ cmd = "process"
    /\ \E o \in outcomes :
          /\ outcome' = o
          /\ thrown' = IsThrow(Process(provider, o))
          /\ response' = IF IsThrow(Process(provider, o)) THEN <<>>
                         ELSE Process(provider, o).v
    /\ pc' = "done"
    /\ UNCHANGED <<settings, cmd, provider, prepared, request, results, matches,
                   content, context, finalContent, target, editor, vault,
                   folders, vault0, calls, notices, tpl>>

PreparedLists == {[i \in 1..n |-> ImageFile(ImageNameAt(i))] : n \in 1..MaxImages}

InitProvider ==
    \E prov \in Providers :
        StartAt(DEFAULT_SETTINGS, "process", prov, NoEditor, <<>>, {}, Empty,
            NoContext, NoTemplate)

NextProvider ==
    \/ ProcessCall(PreparedLists)
    \/ ProcessReturns(BadOutcomes
           \cup {JsonBody(GoodBody(q, t)) : q \in Providers, t \in ReplyTexts})

SpecProvider == InitProvider /\ [][NextProvider]_vars

\* process has handed a request to requestUrl.
RequestSent == cmd = "process" /\ pc \in {"awaitProvider", "done"}

\* C5: a request of an adapter of the ollama or lmstudio family carries no
\* Authorization header, whatever its credential; a request carries the
\* header exactly when its adapter is of the bearer-token family.
C5_AuthIsolation ==
    RequestSent =>
        /\ (provider.class = "OpenAIProvider" /\ provider.provider \in {"ollama", "lmstudio"})
              => "Authorization" \notin DOMAIN request.headers
        /\ "Authorization" \in DOMAIN request.headers
              <=> (provider.class = "OpenAIProvider" /\ provider.provider = "openai")

C5_Witness ==
    /\ RequestSent
    /\ provider.class = "OpenAIProvider"
    /\ provider.provider = "lmstudio"
    /\ provider.apiKey = "sk-1"
    /\ "Authorization" \notin DOMAIN request.headers
    /\ "ContentType" \in DOMAIN request.headers

\* The outcome is one the adapter cannot read a text from.
Unreadable ==
    \/ outcome \in BadOutcomes
    \/ \E q \in Providers, t \in ReplyTexts :
          Shape(q) # Shape(provider) /\ outcome = JsonBody(GoodBody(q, t))

\* C7: however the transport call settles, process returns and does not
\* throw, and what it returns for a failure is the empty text.
C7_Contained ==
    (cmd = "process" /\ pc = "done") =>
        /\ ~thrown
        /\ Unreadable => response = <<>>

C7_Witness ==
    /\ cmd = "process"
    /\ pc = "done"
    /\ outcome = JsonBody(Null)
    /\ provider.class = "GeminiProvider"
    /\ response = <<>>
    /\ ~thrown


\* ---- formatTemplate called on its own ----
Token(path) == <<OPEN>> \o path \o <<CLOSE>>

ScanPng == <<"scan", DOT, "PNG">>

Templates ==
    {<<>>, <<"x">>, <<OPEN, "x">>,
     Token(PathOf("image", "name")),
     Token(<<SP>> \o PathOf("image", "name") \o <<SP>>),
     <<"a">> \o Token(PathOf("image", "name")) \o <<"b">>,
     Token(PathOf("image", "extension")),
     Token(PathOf("image", "dimensions")),
     Token(PathOf3("image", "gps", "latitude")),
     Token(PathOf("prompt", "x")),
     Token(PathOf("provider", "name")),
     Token(PathOf("model", "id")),
     Token(<<"nothing">>),
     Token(<<"YYYY", "-", "MM", "-", "DD">>),
     Token(<<DATE_PREFIX, SP, "YYYY">>)}

\* The context of the commands that hand provider and model on as plain
\* strings and the image with its file name.
LegacyContext ==
    ObjV([provider |-> StrV(<<"openai">>), model |-> StrV(<<"gpt-4o">>),
          prompt |-> StrV(<<"p">>),
          image |-> ObjV([name |-> StrV(ScanPng), path |-> StrV(ScanPng)])])

Contexts ==
    {NoContext,
     LegacyContext,
     buildOCRContext("openai", "gpt-4o", <<"p">>, NoImages,
         Descriptor(ImageFile(ScanPng))),
     ObjV([image |-> ObjV([filename |-> StrV(ScanPng)])]),
     ObjV([image |-> ObjV([filename |-> StrV(<<"a", DOT, "b", DOT, "jpg">>)])]),
     ObjV([image |-> ObjV([filename |-> StrV(ScanPng), name |-> StrV(<<"other">>)])]),
     ObjV([image |-> ObjV([filename |-> StrV(ScanPng), name |-> Null])]),
     ObjV([image |-> ObjV([filename |-> NumV(5)])]),
     ObjV([image |-> ObjV([width |-> NumV(3), height |-> NumV(4)])]),
     ObjV([image |-> Null, prompt |-> StrV(<<>>)])}

InitTemplate ==
    \E t \in Templates, ctx \in Contexts :
        StartAt(DEFAULT_SETTINGS, "formatTemplate", getProvider(DEFAULT_SETTINGS),
            NoEditor, <<>>, {}, Empty, NoContext,
            [template |-> t, context |-> ctx, result |-> <<>>])

NextTemplate == FormatTemplateCall

SpecTemplate == InitTemplate /\ [][NextTemplate]_vars

Rendered == cmd = "formatTemplate" /\ pc = "done"

\* C6 as stated: formatTemplate returns a string without throwing, for
\* every template and every context.
C6_NeverThrows == Rendered => ~thrown

\* The rendered template is the one token {{image.name}} and the image of
\* the context has a string `filename` with a dot in it.
ImageNameOfFilename ==
    /\ Rendered
    /\ tpl.template = Token(PathOf("image", "name"))
    /\ "image" \in DOMAIN tpl.context.v
    /\ tpl.context.v["image"].t = "object"
    /\ "filename" \in DOMAIN tpl.context.v["image"].v
    /\ tpl.context.v["image"].v["filename"].t = "string"
    /\ Contains(tpl.context.v["image"].v["filename"].v, DOT)

\* B of a file name B.E whose E has no dot.
BaseOf(f) ==
    SubSeq(f, 1, (CHOOSE i \in 1..Len(f) : f[i] = DOT /\ \A j \in (i + 1)..Len(f) : f[j] # DOT) - 1)

\* C9 as stated: {{image.name}} resolves to B whenever the image has
\* `filename` B.E.
C9_AliasAlways ==
    ImageNameOfFilename
        => ~thrown /\ tpl.result = BaseOf(tpl.context.v["image"].v["filename"].v)

\* C9, amended: {{image.name}} resolves to B, the case of B kept, when the
\* image has `filename` B.E and no property `name` of its own.
C9_AliasWithoutName ==
    (ImageNameOfFilename /\ "name" \notin DOMAIN tpl.context.v["image"].v)
        => ~thrown /\ tpl.result = BaseOf(tpl.context.v["image"].v["filename"].v)

C9_Witness ==
    /\ ImageNameOfFilename
    /\ tpl.context = ObjV([image |-> ObjV([filename |-> StrV(ScanPng)])])
    /\ tpl.result = <<"scan">>
    /\ ~thrown


\* ---- applyFormatting called on its own ----
BodyTexts == {<<>>, <<"x">>, <<"x", NL>>, Token(PathOf("image", "name"))}

\* content: one body, or a list of bodies
FormatContents ==
    {StrV(t) : t \in BodyTexts}
    \cup {ArrV([i \in 1..Len(l) |-> StrV(l[i])]) : l \in ListsUpTo(BodyTexts, MaxResults)}

FormatContexts ==
    {buildOCRContext("openai", "gpt-4o", <<"p">>, NoImages, Descriptor(ImageFile(ScanPng))),
     buildOCRContext("openai", "gpt-4o", <<"q">>,
         <<Descriptor(ImageFile(ImageNameAt(1))), Descriptor(ImageFile(ImageNameAt(2)))>>,
         NoImage)}

FormatSettings ==
    {[DEFAULT_SETTINGS EXCEPT !.headerTemplate = h, !.batchHeaderTemplate = h,
                              !.batchImageHeaderTemplate = h, !.footerTemplate = f,
                              !.batchFooterTemplate = f, !.batchImageFooterTemplate = f] :
        h \in {<<>>, <<"H", NL>>}, f \in {<<>>, <<"F">>}}

InitFormat ==
    \E st \in FormatSettings, c \in FormatContents, ctx \in FormatContexts :
        StartAt(st, "applyFormatting", getProvider(st), NoEditor, <<>>, {}, c, ctx,
            NoTemplate)

NextFormat == ApplyFormattingCall

SpecFormat == InitFormat /\ [][NextFormat]_vars

Formatted == cmd = "applyFormatting" /\ pc = "done"

AllTemplatesEmpty ==
    /\ settings.headerTemplate = <<>>
    /\ settings.footerTemplate = <<>>
    /\ settings.batchHeaderTemplate = <<>>
    /\ settings.batchFooterTemplate = <<>>
    /\ settings.batchImageHeaderTemplate = <<>>
    /\ settings.batchImageFooterTemplate = <<>>

\* The bodies of a list content, one after the other.
Bodies(cont) == Join([i \in 1..Len(cont.v) |-> cont.v[i].v])

\* C8: with every header and footer template empty, applyFormatting returns
\* the body itself for one body text, and in batch mode (a list of bodies
\* with a context of several images) the bodies one after the other, with
\* nothing added.
C8_FormattingIdentity ==
    (Formatted /\ AllTemplatesEmpty) =>
        /\ ~thrown
        /\ content.t = "string" => finalContent = content.v
        /\ (content.t = "array" /\ HasImages(context)) => finalContent = Bodies(content)

C8_Witness ==
    /\ Formatted
    /\ AllTemplatesEmpty
    /\ HasImages(context)
    /\ content = ArrV(<<StrV(<<"x", NL>>), StrV(<<"x">>)>>)
    /\ finalContent = <<"x", NL, "x">>


\* ---- the single-image command, from the file dialog to the output ----
Foo == <<"F", "o", "o">>
OutFolder == <<"out">>

\* The notes Foo.md (0) and Foo k.md (k >= 1) of a folder, for the k taken.
VaultOf(folder, taken) ==
    LET paths == {IF k = 0 THEN NotePath(folder, Foo) ELSE SuffixedPath(folder, Foo, k) :
                     k \in taken}
    IN  [q \in paths |-> <<"old">>]

\* A folder that holds notes exists.
FoldersOf(folder, taken) ==
    IF folder # <<>> /\ taken # {} THEN {folder} ELSE {}

Editors == {NoEditor, EditorOf(<<"d", "e">>, 2, 1)}

SingleTexts ==
    {<<"H">>, <<SP, "H", SP, "W", NL>>, <<SP>>, Token(PathOf("image", "name"))}

SingleSettles ==
    \/ \E t \in SingleTexts : Settle(JsonBody(GoodBody(provider, t)), <<t>>)
    \/ \E o \in FailureOutcomes : Settle(o, <<>>)

Init ==
    \E p \in {"openai", "gemini"}, toNote \in BOOLEAN, append \in BOOLEAN,
       folder \in {<<>>, OutFolder}, ed \in Editors, taken \in SUBSET (0..MaxSuffix) :
        Start([DEFAULT_SETTINGS EXCEPT !.provider = p, !.outputToNewNote = toNote,
                                       !.appendIfExists = append,
                                       !.noteFolderPath = folder,
                                       !.noteNameTemplate = Foo],
              "single", ed, VaultOf(folder, taken), FoldersOf(folder, taken))

Next ==
    \/ SelectImageFile({ScanPng})
    \/ SingleSettles
    \/ HandleStart
    \/ FolderSettles
    \/ AppendSettles
    \/ CreateUniqueSettles
    \/ CreateSettles
    \/ OpenSettles
    \/ CommandCatch

Spec == Init /\ [][Next]_vars

\* handleExtractedContent has looked the note path up in file mode with
\* append disabled, and a note was there when the command started.
NameTaken ==
    /\ cmd = "single"
    /\ settings.outputToNewNote
    /\ ~settings.appendIfExists
    /\ target.path # <<>>
    /\ target.path \in DOMAIN vault0

\* The smallest k >= 1 for which `<name> k.md` named nothing at the start.
SmallestFree ==
    CHOOSE k \in 1..(MaxSuffix + 1) :
        /\ ~Exists(vault0, folders, SuffixedPath(target.folder, target.name, k))
        /\ \A j \in 1..(k - 1) :
              Exists(vault0, folders, SuffixedPath(target.folder, target.name, j))

\* C4: in file mode with append disabled, when `<name>.md` exists the note
\* is created at `<name> k.md` for the smallest free k >= 1, with the
\* formatted content, and every note that was there keeps its content.
C4_UniqueName ==
    NameTaken =>
        /\ target.branch = "unique"
        /\ target.write = SuffixedPath(target.folder, target.name, SmallestFree)
        /\ \A q \in DOMAIN vault0 : q \in DOMAIN vault /\ vault[q] = vault0[q]
        /\ pc \in {"open", "done"} =>
              /\ target.write \in DOMAIN vault
              /\ vault[target.write] = finalContent
              /\ DOMAIN vault = DOMAIN vault0 \cup {target.write}

C4_Witness ==
    /\ NameTaken
    /\ pc = "done"
    /\ DOMAIN vault0 = {NotePath(OutFolder, Foo), SuffixedPath(OutFolder, Foo, 1)}
    /\ target.write = SuffixedPath(OutFolder, Foo, 2)
    /\ vault[target.write] = <<"H">>
    /\ vault[SuffixedPath(OutFolder, Foo, 1)] = <<"old">>

\* The response body whose first choice's message has the content S.
FirstChoiceBody(S) ==
    JsonBody(ObjV([choices |-> ArrV(<<ObjV([message |-> ObjV([content |-> StrV(S)])])>>)]))

\* The single-image command ran to its end with a hosted-family provider,
\* inline output, empty header and footer, an editor, and a response whose
\* first choice carries a text that is not blank.
InlineCase ==
    /\ cmd = "single"
    /\ pc = "done"
    /\ provider.class = "OpenAIProvider"
    /\ provider.provider = "openai"
    /\ ~settings.outputToNewNote
    /\ settings.headerTemplate = <<>>
    /\ settings.footerTemplate = <<>>
    /\ editor.present
    /\ results # <<>>
    /\ outcome = FirstChoiceBody(results[1])
    /\ Trim(results[1]) # <<>>

\* The document of editor e0 with its selection replaced by text.
Replaced(e0, text) ==
    LET lo == IF e0.anchor < e0.head THEN e0.anchor ELSE e0.head
        hi == IF e0.anchor < e0.head THEN e0.head ELSE e0.anchor
    IN  [i \in 1..(Len(e0.doc) - (hi - lo) + Len(text)) |->
            IF i <= lo THEN e0.doc[i]
            ELSE IF i <= lo + Len(text) THEN text[i - lo]
            ELSE e0.doc[i - Len(text) + (hi - lo)]]

\* C10: in that case the text put in place of the selection is exactly
\* trim(S), S being the content of the first choice's message.
C10_InlineTrimmed ==
    InlineCase =>
        /\ finalContent = Trim(results[1])
        /\ \E e0 \in Editors : e0.present /\ editor.doc = Replaced(e0, Trim(results[1]))
        /\ notices = <<>>

C10_Witness ==
    /\ InlineCase
    /\ results[1] = <<SP, "H", SP, "W", NL>>
    /\ editor.doc = <<"d", "H", SP, "W">>

(***************************************************************************)
(* The embedded-image command, from the selection to the output.           *)
(***************************************************************************)
APng == <<"a", DOT, "png">>
ImgFolder == <<"img">>

\* The vault of the embed runs: the image img/a.png, and the note Foo.md
\* (in the note folder when there is one) if withNote.
EmbedVault(folder, withNote) ==
    LET image == ImgFolder \o <<SLASH>> \o APng
    IN  [q \in {image} \cup (IF withNote THEN {NotePath(folder, Foo)} ELSE {}) |->
            IF q = image THEN <<"bytes">> ELSE <<"old">>]

EmbedFolders(folder, withNote) ==
    {ImgFolder} \cup (IF withNote /\ folder # <<>> THEN {folder} ELSE {})

WikiA == <<EMBED_OPEN>> \o APng \o <<EMBED_CLOSE>>
LinkB == <<LINK_OPEN, "alt", LINK_MID, HTTPS, "h", SLASH, "b", DOT, "jpg", LINK_CLOSE>>

\* Editors the command is run in: an embed selected on its own (wiki form,
\* either direction, and markdown form with an external image), an embed
\* inside a longer selection, an embed on a line above the cursor, an empty
\* embed selected below a real one, a document with no embed, and an embed
\* of an image the vault does not hold.
EmbedEditors ==
    {EditorOf(WikiA, 0, Len(WikiA)),
     EditorOf(<<"t", SP>> \o WikiA \o <<SP, "u">>, 7, 2),
     EditorOf(LinkB, 0, Len(LinkB)),
     EditorOf(<<"t", SP>> \o WikiA, 0, 7),
     EditorOf(WikiA \o <<NL, "t">>, 7, 7),
     EditorOf(WikiA \o <<NL, EMBED_OPEN, EMBED_CLOSE>>, 6, 8),
     EditorOf(<<"t">>, 0, 1),
     EditorOf(<<EMBED_OPEN, "z", EMBED_CLOSE>>, 0, 3)}

EmbedTexts == {<<"H">>, <<SP, "H", SP, "W", NL>>, <<SP>>}

EmbedSettles ==
    \/ \E t \in EmbedTexts : EmbedSettle(JsonBody(GoodBody(provider, t)), <<t>>)
    \/ \E o \in FailureOutcomes : EmbedSettle(o, <<>>)

InitEmbed ==
    \E toNote \in BOOLEAN, append \in BOOLEAN, header \in {<<>>, <<"H", NL>>},
       footer \in {<<>>, <<"F">>}, folder \in {<<>>, OutFolder},
       withNote \in BOOLEAN, ed \in EmbedEditors :
        Start([DEFAULT_SETTINGS EXCEPT !.outputToNewNote = toNote,
                                       !.appendIfExists = append,
                                       !.headerTemplate = header,
                                       !.footerTemplate = footer,
                                       !.noteFolderPath = folder,
                                       !.noteNameTemplate = Foo],
              "embed", ed, EmbedVault(folder, withNote), EmbedFolders(folder, withNote))

NextEmbed ==
    \/ EmbedStart({0, 3})
    \/ EmbedSettles
    \/ HandleStart
    \/ FolderSettles
    \/ AppendSettles
    \/ CreateUniqueSettles
    \/ CreateSettles
    \/ OpenSettles
    \/ CommandCatch

SpecEmbed == InitEmbed /\ [][NextEmbed]_vars

\* The provider has answered the embedded-image command with content.
EmbedReplied ==
    /\ cmd = "embed"
    /\ pc \notin {"idle", "awaitProvider"}
    /\ prepared # <<>>
    /\ response # <<>>

\* A text that is one embed and nothing else: the opening and the closing
\* token around a link, with no other embed token in between.
OneEmbedToken(sel) ==
    /\ Len(sel) >= 3
    /\ \A i \in 2..(Len(sel) - 1) :
          sel[i] \notin {EMBED_OPEN, EMBED_CLOSE, LINK_OPEN, LINK_CLOSE, NL}
    /\ \/ /\ sel[1] = EMBED_OPEN
          /\ sel[Len(sel)] = EMBED_CLOSE
          /\ \A i \in 2..(Len(sel) - 1) : sel[i] # LINK_MID
       \/ /\ sel[1] = LINK_OPEN
          /\ sel[Len(sel)] = LINK_CLOSE
          /\ Cardinality({i \in 2..(Len(sel) - 1) : sel[i] = LINK_MID}) = 1

\* C11: in the embedded-image command, when the selection is one image
\* embed and nothing else and the provider returns content, the command
\* ends with the selection replaced by that content as returned: whatever
\* the output-to-note, append, header, footer and folder settings, nothing
\* is formatted, no note path is computed, no file or folder is created or
\* modified, and no notice of the output step is shown.
C11_EmbedShortCircuit ==
    (EmbedReplied /\ OneEmbedToken(prepared[1].sel)) =>
        /\ pc = "done"
        /\ \E e0 \in EmbedEditors :
              /\ getSelection(e0) = prepared[1].sel
              /\ editor.doc = Replaced(e0, response)
        /\ finalContent = <<>>
        /\ target = NoTarget
        /\ vault = vault0
        /\ folders = EmbedFolders(settings.noteFolderPath,
                          NotePath(settings.noteFolderPath, Foo) \in DOMAIN vault0)
        /\ notices = <<>>
        /\ ~thrown

\* The short-circuit has happened with file mode, append, a header and a
\* footer all set, and a note already at the note path.
C11_Witness ==
    /\ EmbedReplied
    /\ OneEmbedToken(prepared[1].sel)
    /\ pc = "done"
    /\ settings.outputToNewNote
    /\ settings.appendIfExists
    /\ settings.headerTemplate # <<>>
    /\ settings.footerTemplate # <<>>
    /\ NotePath(settings.noteFolderPath, Foo) \in DOMAIN vault
    /\ editor.doc = response

(***************************************************************************)
(* The folder command from the selection to the output, with and without  *)
(* a `process` operation on the provider, in inline and in file mode.      *)
(***************************************************************************)
\* A per-image header naming the image, its index and the total.
ImgHeader ==
    <<"#">> \o Token(PathOf("image", "name")) \o <<SP>> \o Token(PathOf("image", "index"))
        \o <<"/">> \o Token(PathOf("image", "total")) \o <<NL>>

RouteTexts == {<<"x">>, <<"y", SP>>}

\* The provider answers with wrapped results, with a bare text, or fails.
BatchRouteSettles ==
    \/ \E list \in ListsUpTo(RouteTexts, MaxResults) :
          Settle(JsonBody(GoodBody(provider, Wrap(list))), list)
    \/ Settle(JsonBody(GoodBody(provider, <<"z">>)), <<>>)
    \/ \E o \in {NetworkError, JsonBody(Null)} : Settle(o, <<>>)

\* The vault of the folder runs: the note Foo.md if withNote.
RouteVault(folder, withNote) ==
    [q \in (IF withNote THEN {NotePath(folder, Foo)} ELSE {}) |-> <<"old">>]

RouteFolders(folder, withNote) ==
    IF withNote /\ folder # <<>> THEN {folder} ELSE {}

InitBatchRoute ==
    \E toNote \in BOOLEAN, append \in BOOLEAN,
       name \in {Foo, Token(PathOf("image", "name"))}, folder \in {<<>>, OutFolder},
       imgHeader \in {<<>>, ImgHeader}, withNote \in BOOLEAN :
        Start([DEFAULT_SETTINGS EXCEPT !.batchOutputToNewNote = toNote,
                                       !.batchAppendIfExists = append,
                                       !.outputToNewNote = toNote,
                                       !.appendIfExists = append,
                                       !.batchNoteNameTemplate = name,
                                       !.noteNameTemplate = name,
                                       !.batchNoteFolderPath = folder,
                                       !.noteFolderPath = folder,
                                       !.batchImageHeaderTemplate = imgHeader],
              "batch", EditorOf(<<"d">>, 0, 1), RouteVault(folder, withNote),
              RouteFolders(folder, withNote))

NextBatchRoute ==
    \/ SelectFolder(FolderLists)
    \/ SelectFolderWith(FolderLists, WithoutProcess(getProvider(settings)))
    \/ BatchRouteSettles
    \/ HandleStart
    \/ FolderSettles
    \/ AppendSettles
    \/ CreateUniqueSettles
    \/ CreateSettles
    \/ OpenSettles
    \/ CommandCatch

SpecBatchRoute == InitBatchRoute /\ [][NextBatchRoute]_vars

\* The folder command has had its answer from the provider.
BatchAnswered ==
    /\ cmd = "batch"
    /\ prepared # <<>>
    /\ pc \notin {"idle", "awaitProvider"}

\* C12: when two or more images are requested and the provider has no
\* `process`, one request with one image is made and, whatever the response
\* text, the result is handed on in single-image mode: the context has
\* `image` and no `images`.
C12_GapSingleMode ==
    (BatchAnswered /\ ~provider.hasProcess /\ Len(prepared) >= 2) =>
        /\ Len(request.body.images) = 1
        /\ HasImage(context)
        /\ ~HasImages(context)

(***************************************************************************)
(* buildOCRContext on its own.                                             *)
(***************************************************************************)
\* The descriptors a command may hand over.
Descriptors == {Descriptor(ImageFile(ImageNameAt(i))) : i \in 1..2}

InitContext ==
    \E p \in {"openai", "ollama", "gemini"}, prompt \in {<<>>, <<"p">>},
       images \in ListsUpTo(Descriptors, MaxImages),
       singleImage \in {NoImage} \cup Descriptors :
        StartAt([DEFAULT_SETTINGS EXCEPT !.provider = p], "buildOCRContext",
                getProvider([DEFAULT_SETTINGS EXCEPT !.provider = p]), NoEditor, <<>>, {},
                Empty, NoContext,
                [prompt |-> prompt, images |-> images, singleImage |-> singleImage])

NextContext ==
    \/ BuildContextCall
    \/ BuildContextSpreadCall

SpecContext == InitContext /\ [][NextContext]_vars

ContextBuilt == cmd = "buildOCRContext" /\ pc = "done"

\* The entry carries the given index and total.
Numbered(entry, index, total) ==
    /\ entry.t = "object"
    /\ "index" \in DOMAIN entry.v
    /\ "total" \in DOMAIN entry.v
    /\ entry.v["index"] = NumV(index)
    /\ entry.v["total"] = NumV(total)

\* C13: buildOCRContext given more than one image descriptor returns a
\* context with `images`, entry i carrying index i and total the number of
\* descriptors, and no `image`; given exactly one descriptor, as singleImage
\* or as a one-element `images`, it returns a context with `image` carrying
\* index 1 and total 1, and no `images`.
C13_ContextRule ==
    ContextBuilt =>
        /\ Len(tpl.images) > 1 =>
              /\ HasImages(context)
              /\ ~HasImage(context)
              /\ Len(context.v["images"].v) = Len(tpl.images)
              /\ \A i \in 1..Len(tpl.images) :
                    Numbered(context.v["images"].v[i], i, Len(tpl.images))
        /\ (\/ IsGiven(tpl.singleImage) /\ tpl.images = <<>>
            \/ ~IsGiven(tpl.singleImage) /\ Len(tpl.images) = 1) =>
              /\ HasImage(context)
              /\ ~HasImages(context)
              /\ Numbered(context.v["image"], 1, 1)

(***************************************************************************)
(* The output router: inline mode without an editor, append mode, and a    *)
(* folder that cannot be created.                                          *)
(***************************************************************************)
\* The folders of the vault the single-image command starts with.
SingleFolders0 ==
    IF settings.noteFolderPath # <<>> /\ DOMAIN vault0 # {}
    THEN {settings.noteFolderPath} ELSE {}

\* handleExtractedContent has run in inline mode with no editor at hand.
InlineNoEditor ==
    /\ cmd = "single"
    /\ ~settings.outputToNewNote
    /\ ~editor.present
    /\ content # Empty
    /\ pc \notin {"idle", "awaitProvider", "handle"}

\* C14: in inline mode with no editor available, handleExtractedContent
\* shows the notice that there is no active editor and ends: no other notice,
\* nothing thrown, no storage call pending, no file or folder created or
\* modified.
C14_NoTarget ==
    InlineNoEditor =>
        /\ pc = "done"
        /\ notices = <<NO_EDITOR>>
        /\ ~thrown
        /\ vault = vault0
        /\ folders = SingleFolders0
        /\ target.write = <<>>

\* The case is reached with notes in the vault that stay as they are.
C14_Witness ==
    /\ InlineNoEditor
    /\ notices = <<NO_EDITOR>>
    /\ finalContent = <<"H">>
    /\ DOMAIN vault0 # {}

\* The formatted content of a single run whose templates hold no token.
PlainFormatted ==
    settings.headerTemplate \o content.v
        \o (IF settings.footerTemplate # <<>> THEN <<NL>> \o settings.footerTemplate
            ELSE <<>>)

\* handleExtractedContent has written in file mode with append enabled and
\* a note at the computed path when the command started.
AppendCase ==
    /\ cmd = "embed"
    /\ settings.outputToNewNote
    /\ settings.appendIfExists
    /\ NotePath(settings.noteFolderPath, Foo) \in DOMAIN vault0
    /\ finalContent # <<>>
    /\ pc \in {"open", "done"}

\* C15: in file mode with append enabled and a file at the computed path,
\* once handleExtractedContent has written, that file holds its previous
\* content, a blank-line separator and the formatted content, and no other
\* file or folder has been created or modified.
C15_Append ==
    AppendCase =>
        /\ vault = [vault0 EXCEPT ![NotePath(settings.noteFolderPath, Foo)] =
                       @ \o <<NL, NL>> \o PlainFormatted]
        /\ folders = EmbedFolders(settings.noteFolderPath, TRUE)
        /\ finalContent = PlainFormatted

\* Appended with a header and a footer, in a folder, and shown.
C15_Witness ==
    /\ AppendCase
    /\ pc = "done"
    /\ settings.headerTemplate # <<>>
    /\ settings.footerTemplate # <<>>
    /\ settings.noteFolderPath = OutFolder
    /\ vault[NotePath(OutFolder, Foo)] = <<"old", NL, NL, "H", NL, "H", NL, "F">>
    /\ editor.doc = vault[NotePath(OutFolder, Foo)]

\* handleExtractedContent has reported that the folder could not be made.
FolderCreationFailed ==
    /\ cmd = "single"
    /\ notices # <<>>
    /\ notices[1] = FOLDER_FAILED

\* C16: in file mode, when the folder is named, does not exist and cannot
\* be created, handleExtractedContent tells the user and ends: no note is
\* created or modified, the folder is still missing, and no second attempt
\* or further storage call follows.
C16_FolderFailureTerminal ==
    FolderCreationFailed =>
        /\ pc = "done"
        /\ notices = <<FOLDER_FAILED>>
        /\ ~thrown
        /\ vault = vault0
        /\ folders = {}
        /\ target.branch = "folder"
        /\ target.write = <<>>

C16_Witness ==
    /\ FolderCreationFailed
    /\ settings.outputToNewNote
    /\ target.folder = OutFolder
    /\ finalContent = <<"H">>
    /\ pc = "done"

(***************************************************************************)
(* The end of an invocation whose provider call brought nothing.           *)
(***************************************************************************)
\* The provider call of a command has come back with no text.
EmptyResult ==
    /\ cmd \in {"single", "embed", "batch"}
    /\ prepared # <<>>
    /\ pc \notin {"idle", "awaitProvider"}
    /\ response = <<>>

\* The editors the commands are started with.
StartEditors == Editors \cup EmbedEditors \cup {EditorOf(<<"d">>, 0, 1)}

\* C17: in each of the three commands, when the provider call yields an
\* empty or absent result the invocation ends there: the editor is as it
\* was, and no file or folder has been created or modified.
C17_FailureTerminal ==
    EmptyResult =>
        /\ editor \in StartEditors
        /\ vault = vault0

\* A batch result has been written in file mode under a note name template
\* that names the image.
BatchNotesWritten ==
    /\ cmd = "batch"
    /\ HasImages(context)
    /\ settings.batchOutputToNewNote
    /\ settings.batchNoteNameTemplate = Token(PathOf("image", "name"))
    /\ pc = "done"
    /\ ~thrown
    /\ notices = <<>>

\* The name buildOCRContext gave image i of the batch.
BatchImageName(i) == context.v["images"].v[i].v["name"].v

\* C18: when a batch result goes to file mode and the batch note name
\* template references a field of the image, the file-mode procedure runs
\* once per image with that image's context: each image has a note named
\* after it, one note per image and no combined note.
C18_PerImageNotes ==
    BatchNotesWritten =>
        /\ \A i \in 1..Len(context.v["images"].v) :
              NotePath(target.folder, BatchImageName(i)) \in DOMAIN vault
        /\ Cardinality(DOMAIN vault \ DOMAIN vault0) = Len(context.v["images"].v)

\* handleExtractedContent has formatted a batch response with two or more
\* matched segments.
BatchFormatted ==
    /\ cmd = "batch"
    /\ Len(matches) >= 2
    /\ target.branch # "none"

\* The name the context records for a file: the command strips the
\* extension and buildOCRContext strips once more.
NameInContext(fileName) == StripExtension(StripExtension(fileName))

\* The per-image header of block i as ImgHeader words it, for a name, an
\* index and a total.
HeaderWith(name, index, total) ==
    IF settings.batchImageHeaderTemplate = <<>> THEN <<>>
    ELSE <<"#">> \o name \o <<SP>> \o index \o <<"/">> \o total \o <<NL>>

\* Block i of the output: rendered with image i while there is one, with
\* empty image fields beyond.
ExpectedBlock(i) ==
    IF i <= Len(prepared)
    THEN HeaderWith(NameInContext(prepared[i].name), <<ToString(i)>>,
             <<ToString(Len(prepared))>>) \o matches[i]
    ELSE HeaderWith(<<>>, <<>>, <<>>) \o matches[i]

FileModeEntered ==
    /\ cmd = "single"
    /\ settings.outputToNewNote
    /\ target.branch \in {"folder", "append", "unique", "create"}

\* C20: whichever storage operation fails in file mode (creating the
\* folder, creating the note at its path or at a unique path, reading or
\* modifying it to append, opening it), handleExtractedContent turns the
\* failure into a notice and returns: it never throws to its caller.
C20_OutputContained ==
    FileModeEntered =>
        /\ ~thrown
        /\ pc \notin {"rejected", "failed"}

(***************************************************************************)
(* The settings tab while a request is pending.                            *)
(***************************************************************************)
HeaderTemplates == {<<>>, <<"H", NL>>}
NoteNames == {Foo, <<"G">>}

\* An onChange handler of the output section of GPTImageOCRSettingTab runs:
\* it assigns the new value to plugin.settings at once.  The user may change
\* a setting whenever a command is suspended at an await.
SettingTabChange ==
    /\ pc \in {"awaitProvider", "createFolder", "read", "createUnique", "create", "open"}
    /\ \/ \E value \in HeaderTemplates :
             settings' = [settings EXCEPT !.headerTemplate = value]
       \/ \E value \in BOOLEAN :
             settings' = [settings EXCEPT !.outputToNewNote = value]
       \/ \E value \in {<<>>, <<SP, "o", "u", "t">>} :
             settings' = [settings EXCEPT !.noteFolderPath = Trim(value)]
       \/ \E value \in NoteNames :
             settings' = [settings EXCEPT !.noteNameTemplate = value]
       \/ \E value \in BOOLEAN :
             settings' = [settings EXCEPT !.appendIfExists = value]
    /\ settings' # settings
    /\ UNCHANGED <<cmd, pc, provider, prepared, request, outcome, results, response,
                   thrown, matches, content, context, finalContent, target, editor,
                   vault, folders, vault0, calls, notices, tpl>>

\* The settings held when the command of SpecSettings starts: file mode,
\* appending to the note Foo.md.
SnapshotSettings ==
    [DEFAULT_SETTINGS EXCEPT !.outputToNewNote = TRUE, !.appendIfExists = TRUE,
                             !.noteNameTemplate = Foo]

InitSettings ==
    \E ed \in Editors, taken \in SUBSET {0, 1} :
        Start(SnapshotSettings, "single", ed, VaultOf(<<>>, taken), {})

NextSettings ==
    \/ SelectImageFile({ScanPng})
    \/ SettingTabChange
    \/ \E t \in {<<"H">>, <<SP, "H", SP, "W", NL>>} :
          Settle(JsonBody(GoodBody(provider, t)), <<t>>)
    \/ Settle(NetworkError, <<>>)
    \/ HandleStart
    \/ FolderSettles
    \/ AppendSettles
    \/ CreateUniqueSettles
    \/ CreateSettles
    \/ OpenSettles
    \/ CommandCatch

SpecSettings == InitSettings /\ [][NextSettings]_vars

\* handleExtractedContent has formatted the result and chosen its output.
SettingsApplied ==
    /\ cmd = "single"
    /\ content # Empty
    /\ target.branch # "none"

\* C21: the output target, templates, naming and append settings applied to
\* a request are those held when the request started: the result is
\* formatted with the header and footer of that moment and routed to the
\* note, and by the branch (append or create), those settings name.
C21_SettingsSnapshot ==
    SettingsApplied =>
        /\ finalContent = applyFormatting(SnapshotSettings, content, context).v
        /\ target.path = NotePath(<<>>, Foo)
        /\ target.branch = Lookup(SnapshotSettings, context, vault0, {}, Foo, <<>>).branch

(***************************************************************************)
(* The three commands side by side: the image-file command, the            *)
(* embedded-image command and the folder command, each from its start to   *)
(* its output.                                                             *)
(***************************************************************************)
InitCommands == Init \/ InitEmbed \/ InitBatchRoute

NextCommands ==
    \/ SelectImageFile({ScanPng})
    \/ cmd = "single" /\ SingleSettles
    \/ EmbedStart({0, 3})
    \/ EmbedSettles
    \/ SelectFolder(FolderLists)
    \/ SelectFolderWith(FolderLists, WithoutProcess(getProvider(settings)))
    \/ cmd = "batch" /\ BatchRouteSettles
    \/ HandleStart
    \/ FolderSettles
    \/ AppendSettles
    \/ CreateUniqueSettles
    \/ CreateSettles
    \/ OpenSettles
    \/ CommandCatch

SpecCommands == InitCommands /\ [][NextCommands]_vars

\* The notices of the acquisition step.
AcquisitionNotices ==
    {NO_FILE_SELECTED, NO_EMBED, NOT_IN_VAULT, FETCH_FAILED, NO_IMAGE_DATA, NO_IMAGES}

\* The invocation found no file, no embed, no image in the vault, no data
\* behind the URL or no image to prepare.
AcquisitionFailed ==
    /\ notices # <<>>
    /\ notices[1] \in AcquisitionNotices

SubmittedData(imgs) == [i \in 1..Len(imgs) |-> imgs[i].base64]

\* A step of an invocation issues a transport request only when the command
\* leaves its start for the provider call, which it does once: the request
\* is never replaced and the provider call is never awaited anew.
SingleCallStep ==
    /\ request' # request => (pc = "idle" /\ request = NoRequest /\ pc' = "awaitProvider")
    /\ (pc' = "awaitProvider" /\ pc # "awaitProvider") =>
          (pc = "idle" /\ request' # NoRequest)
    /\ pc # "idle" => pc' # "idle"

\* C23 as stated: at most one transport request per invocation, never
\* re-sent, and the request of a batch carries the data of all N prepared
\* images in submission order.
C23_OneCallAllImages ==
    [][/\ SingleCallStep
       /\ (cmd = "batch" /\ pc' = "awaitProvider") =>
             request'.body.images = SubmittedData(prepared')]_vars

\* C23: at most one transport request per invocation, never re-sent; the
\* request of a batch carries the data of all N prepared images in
\* submission order when the provider has `process`, and that of the first
\* image alone when it has not; the other commands send their one image.
C23_OneCall ==
    [][/\ SingleCallStep
       /\ pc' = "awaitProvider" =>
             request'.body.images =
                IF cmd = "batch" /\ provider'.hasProcess
                THEN SubmittedData(prepared')
                ELSE <<prepared'[1].base64>>]_vars

\* A batch of two images whose one request failed and was not sent again.
C23_Witness ==
    /\ cmd = "batch"
    /\ provider.hasProcess
    /\ pc = "done"
    /\ outcome = NetworkError
    /\ request # NoRequest
    /\ request.body.images = <<Base64Of(ImageNameAt(1)), Base64Of(ImageNameAt(2))>>
    /\ Base64Of(ImageNameAt(1)) # Base64Of(ImageNameAt(2))

(***************************************************************************)
(* Headers and footers that resolve to blank text.                         *)
(***************************************************************************)
\* Templates whose resolved value is empty after trimming: nothing, a
\* space, a line break, a token that resolves to nothing before a line break.
BlankTemplates == {<<>>, <<SP>>, <<NL>>, Token(<<"nothing">>) \o <<NL>>}

BlankSettings ==
    {[DEFAULT_SETTINGS EXCEPT !.headerTemplate = h, !.batchHeaderTemplate = h,
                              !.batchImageHeaderTemplate = h, !.footerTemplate = f,
                              !.batchFooterTemplate = f, !.batchImageFooterTemplate = f] :
        h \in BlankTemplates, f \in BlankTemplates}

BlankContents ==
    {StrV(t) : t \in {<<"x">>, <<"x", NL>>}}
    \cup {ArrV([i \in 1..Len(l) |-> StrV(l[i])]) :
             l \in ListsUpTo({<<"x">>, <<"y", NL>>}, MaxResults)}

InitBlank ==
    \E st \in BlankSettings, c \in BlankContents, ctx \in FormatContexts :
        StartAt(st, "applyFormatting", getProvider(st), NoEditor, <<>>, {}, c, ctx,
            NoTemplate)

NextBlank == ApplyFormattingCall

SpecBlank == InitBlank /\ [][NextBlank]_vars

\* Every header and footer of the settings resolves to blank text.
AllTemplatesBlank ==
    \A t \in {settings.headerTemplate, settings.footerTemplate,
              settings.batchHeaderTemplate, settings.batchFooterTemplate,
              settings.batchImageHeaderTemplate, settings.batchImageFooterTemplate} :
        /\ ~IsThrow(formatTemplate(t, context))
        /\ Trim(formatTemplate(t, context).v) = <<>>

\* C24: headers and footers whose resolved value is empty after trimming
\* contribute no characters: with all of them blank applyFormatting returns
\* the body for one body text, and the bodies one after the other for a
\* list of bodies with a context of several images.
C24_BlankDropped ==
    (Formatted /\ AllTemplatesBlank) =>
        /\ ~thrown
        /\ content.t = "string" => finalContent = content.v
        /\ (content.t = "array" /\ HasImages(context)) => finalContent = Bodies(content)

(***************************************************************************)
(* Tokens that look like date patterns.                                    *)
(***************************************************************************)
Digits == {"1", "2"}

\* Expressions made of the letters Y M D H m s, digits and separators.
DateExprs ==
    {<<"YYYY">>, <<SP, "YYYY", "-", "MM", SP>>, <<"HH", ":", "mm", ":", "ss">>,
     <<"DD", "/", "MM">>, <<"1">>, <<"YYYY", "-", "1">>, <<"2", SP, "HH">>}

\* Contexts with and without keys named like such expressions.
DateContexts ==
    {NoContext,
     ObjV([YYYY |-> StrV(<<"k">>), HH |-> NumV(7)]),
     buildOCRContext("openai", "gpt-4o", <<"p">>, NoImages, Descriptor(ImageFile(ScanPng)))}

InitDate ==
    \E pre \in {<<>>, <<"a">>}, e \in DateExprs, post \in {<<>>, <<"b">>},
       ctx \in DateContexts :
        StartAt(DEFAULT_SETTINGS, "formatTemplate", getProvider(DEFAULT_SETTINGS),
            NoEditor, <<>>, {}, Empty, NoContext,
            [template |-> pre \o Token(e) \o post, context |-> ctx, result |-> <<>>])

NextDate == FormatTemplateCall

SpecDate == InitDate /\ [][NextDate]_vars

\* The expression is made only of date letters, digits and separators.
DateLike(e) ==
    /\ e # <<>>
    /\ \A i \in 1..Len(e) : e[i] \in DateTokens \cup Digits

\* C25: a token whose trimmed expression is made only of the letters
\* Y M D H m s, digits and the separators - : / and space is replaced by
\* the current timestamp formatted with the whole expression as pattern,
\* whatever the context holds.
C25_DatePrecedence ==
    Rendered =>
        \A pre \in {<<>>, <<"a">>}, e \in DateExprs, post \in {<<>>, <<"b">>} :
            (tpl.template = pre \o Token(e) \o post /\ DateLike(Trim(e))) =>
                /\ ~thrown
                /\ tpl.result = pre \o MomentFormat(Trim(e)) \o post

(***************************************************************************)
(* Single mode and batch mode.                                             *)
(***************************************************************************)
\* A command has called handleExtractedContent.
HandleEntered == pc = "handle" \/ target.branch # "none"

\* applyFormatting takes its batch branch.
FormatsAsBatch == HasImages(context) /\ content.t = "array"

\* C26: for every request that reaches handleExtractedContent the content
\* is a list of per-image texts exactly when the context has `images`, so
\* that a list is formatted by the batch branch of applyFormatting and
\* routed by the batch settings, and one text by the single ones.
C26_ModeAgreement ==
    HandleEntered =>
        /\ content.t = "array" <=> HasImages(context)
        /\ content.t = "array" => FormatsAsBatch

(***************************************************************************)
(* The cursor after an inline insertion.                                   *)
(***************************************************************************)
InlineDoc == <<"a", "b", "c", "d">>

\* Every selection of the document: empty, forward and backward.
InlineEditors ==
    {EditorOf(InlineDoc, anchor, head) :
        anchor \in 0..Len(InlineDoc), head \in 0..Len(InlineDoc)}

InitInline ==
    \E h \in {<<>>, <<"H", NL>>, Token(PathOf("prompt", "x"))}, ed \in InlineEditors :
        Start([DEFAULT_SETTINGS EXCEPT !.headerTemplate = h, !.customPrompt = <<"p">>],
              "single", ed, <<>>, {})

NextInline ==
    \/ SelectImageFile({ScanPng})
    \/ SingleSettles
    \/ HandleStart
    \/ CommandCatch

SpecInline == InitInline /\ [][NextInline]_vars

\* handleExtractedContent has inserted the content into the editor.
InsertedInline ==
    /\ cmd = "single"
    /\ pc = "done"
    /\ target.branch = "inline"
    /\ editor.present

\* C27: after an inline insertion the cursor is at the start of the
\* replaced span plus the length of the inserted content, whatever the
\* selection was: empty, forward or backward.
C27_CursorAfterInsert ==
    InsertedInline =>
        \A e0 \in InlineEditors :
            editor.doc = replaceSelection(e0, finalContent).doc =>
                /\ editor.head = SelFrom(e0) + Len(finalContent)
                /\ editor.anchor = editor.head

(***************************************************************************)
(* The order in which applyFormatting composes its output.                 *)
(***************************************************************************)
\* Each template is empty or a text of its own; the per-image templates
\* carry the index of the image.
ComposeSettings ==
    {[DEFAULT_SETTINGS EXCEPT !.headerTemplate = h, !.footerTemplate = f,
                              !.batchHeaderTemplate = bh, !.batchFooterTemplate = bf,
                              !.batchImageHeaderTemplate = ih,
                              !.batchImageFooterTemplate = if] :
        h \in {<<>>, <<"H", NL>>}, f \in {<<>>, <<"F">>},
        bh \in {<<>>, <<"BH", NL>>}, bf \in {<<>>, <<"BF">>},
        ih \in {<<>>, <<"#">> \o Token(<<"imageIndex">>) \o <<NL>>},
        if \in {<<>>, <<"/">> \o Token(<<"imageIndex">>) \o <<NL>>}}

ComposeContents ==
    {StrV(t) : t \in {<<"x">>, <<"y", NL>>}}
    \cup {ArrV([i \in 1..Len(l) |-> StrV(l[i])]) :
             l \in ListsUpTo({<<"x">>, <<"y", NL>>}, MaxResults)}

InitCompose ==
    \E st \in ComposeSettings, c \in ComposeContents, ctx \in FormatContexts :
        StartAt(st, "applyFormatting", getProvider(st), NoEditor, <<>>, {}, c, ctx,
            NoTemplate)

NextCompose ==
    \/ ApplyFormattingCall
    \/ ApplyFormattingPlainCall

SpecCompose == InitCompose /\ [][NextCompose]_vars

\* The per-image block of the i-th text: its header, the text, its footer.
ComposedBlock(st, cont, ctx, i) ==
    formatTemplate(st.batchImageHeaderTemplate, ImageContext(ctx, i)).v
        \o cont.v[i].v
        \o formatTemplate(st.batchImageFooterTemplate, ImageContext(ctx, i)).v

\* The parts in the order of the claim, one after the other.
Composed(st, cont, ctx) ==
    IF cont.t = "array"
    THEN formatTemplate(st.batchHeaderTemplate, ctx).v
            \o Join([i \in 1..Len(cont.v) |-> ComposedBlock(st, cont, ctx, i)])
            \o formatTemplate(st.batchFooterTemplate, ctx).v
    ELSE formatTemplate(st.headerTemplate, ctx).v \o cont.v
            \o formatTemplate(st.footerTemplate, ctx).v

\* C28: applyFormatting returns, in batch mode, the batch header, then for
\* each text in list order its per-image header, the text and its per-image
\* footer, then the batch footer, and in single mode the header, the text
\* and the footer, each part once and nothing else.
C28_CompositionOrder ==
    (Formatted /\ (content.t = "string" \/ FormatsAsBatch)) =>
        /\ ~thrown
        /\ finalContent = Composed(settings, content, context)

(***************************************************************************)
(* Two invocations appending to the same note.                             *)
(***************************************************************************)
AppendContext ==
    buildOCRContext("openai", "gpt-4o", <<"p">>, NoImages, Descriptor(ImageFile(ScanPng)))

InitAppend ==
    \E h \in {<<>>, <<"H", NL>>}, a \in {<<"A">>, <<"A", NL, "A">>} :
        StartWith([DEFAULT_SETTINGS EXCEPT !.outputToNewNote = TRUE,
                                           !.appendIfExists = TRUE,
                                           !.noteNameTemplate = Foo,
                                           !.headerTemplate = h],
            "handleExtractedContent", getProvider(DEFAULT_SETTINGS), NoEditor,
            VaultOf(<<>>, {0}), {}, Empty, NoContext, NoTemplate,
            <<CallOf(StrV(a), AppendContext), CallOf(StrV(<<"B">>), AppendContext)>>)

NextAppend ==
    \/ \E i \in 1..Len(calls) : CallEnter(i)
    \/ \E i \in 1..Len(calls) : CallReadSettles(i)
    \/ \E i \in 1..Len(calls) : CallModifySettles(i)
    \/ \E i \in 1..Len(calls) : CallOpenSettles(i)

SpecAppend == InitAppend /\ [][NextAppend]_vars

\* The text t stands somewhere in s.
HasText(s, t) ==
    \E k \in 0..(Len(s) - Len(t)) : SubSeq(s, k + 1, k + Len(t)) = t

\* Every invocation has appended, opened the note and returned.
AllAppended == \A i \in 1..Len(calls) : calls[i].pc = "done"

\* C29: when two invocations of handleExtractedContent append to the same
\* existing note and both have returned, the note holds the formatted
\* content of both, however their reads and writes interleaved.
C29_NoLostAppend ==
    AllAppended =>
        \A i \in 1..Len(calls) : HasText(vault[calls[i].path], calls[i].finalContent)

(***************************************************************************)
(* Which embed the embedded-image command takes.                           *)
(***************************************************************************)
MaxLines == 3

\* The k-th line of a document: a text, a wiki embed of the vault image
\* <k>, or a markdown embed of the external image https://<k>.
FindLines(k) ==
    {<<"t">>,
     <<EMBED_OPEN, ToString(k), EMBED_CLOSE>>,
     <<LINK_OPEN, LINK_MID, HTTPS, ToString(k), LINK_CLOSE>>}

RECURSIVE FindDocs(_)
\* The documents of n lines.
FindDocs(n) ==
    IF n = 1 THEN FindLines(0)
    ELSE {d \o <<NL>> \o l : d \in FindDocs(n - 1), l \in FindLines(n - 1)}

\* Every selection of every document of up to MaxLines lines, and an embed
\* with nothing between its brackets.
FindEditors ==
    {EditorOf(<<"t", EMBED_OPEN, EMBED_CLOSE>>, 0, 3)}
    \cup UNION {{EditorOf(d, anchor, head) : anchor \in 0..Len(d), head \in 0..Len(d)} :
                   d \in UNION {FindDocs(n) : n \in 1..MaxLines}}

\* The vault holds the images the wiki embeds name.
FindVault == [q \in {<<ToString(k)>> : k \in 0..(MaxLines - 1)} |-> <<"bytes">>]

InitFind ==
    \E ed \in FindEditors : Start(DEFAULT_SETTINGS, "embed", ed, FindVault, {})

NextFind == EmbedStart({3})

SpecFind == InitFind /\ [][NextFind]_vars

\* The places of the embeds of a text: "![[", one token or more without a
\* line break, "]]"; and "![", "](", one token or more, ")" on one line.
PlacesOf(text, token) == {k \in 1..Len(text) : text[k] = token}

WikiPairs(text) ==
    {p \in PlacesOf(text, EMBED_OPEN) \X PlacesOf(text, EMBED_CLOSE) :
        /\ p[2] > p[1] + 1
        /\ \A k \in p[1]..p[2] : text[k] # NL}

LinkTriples(text) ==
    {p \in PlacesOf(text, LINK_OPEN) \X PlacesOf(text, LINK_MID)
                                        \X PlacesOf(text, LINK_CLOSE) :
        /\ p[1] < p[2]
        /\ p[3] > p[2] + 1
        /\ \A k \in p[1]..p[3] : text[k] # NL}

HasEmbed(text) == WikiPairs(text) # {} \/ LinkTriples(text) # {}

\* The links of the embeds of a text.
LinksIn(text) ==
    {Trim(SplitFirst(SubSeq(text, p[1] + 1, p[2] - 1), PIPE)) : p \in WikiPairs(text)}
    \cup {SplitFirst(SubSeq(text, p[2] + 1, p[3] - 1), SP) : p \in LinkTriples(text)}

\* The lines at or above the cursor line that hold an embed.
EmbedLinesAbove(ed) ==
    {n \in 0..LineAt(ed.doc, ed.head) : HasEmbed(getLine(ed.doc, n))}

\* The command has looked for its embed and not yet touched the editor.
EmbedLooked ==
    /\ cmd = "embed"
    /\ pc # "idle"
    /\ pc = "awaitProvider" \/ request = NoRequest

\* C30: the command finds no embed exactly when neither the selection nor
\* any line from the cursor line up to line 0 holds one; otherwise the link
\* it takes is that of an embed of the selection if the selection holds
\* one, and else that of an embed of the closest line at or above the
\* cursor line that holds one.
C30_NearestEmbed ==
    EmbedLooked =>
        /\ (notices = <<NO_EMBED>>) <=>
              (~HasEmbed(getSelection(editor)) /\ EmbedLinesAbove(editor) = {})
        /\ pc = "awaitProvider" =>
              prepared[1].path \in
                 IF HasEmbed(getSelection(editor))
                 THEN LinksIn(getSelection(editor))
                 ELSE LinksIn(getLine(editor.doc, Max(EmbedLinesAbove(editor))))

\* With the cursor on a third line that holds no embed, below two lines
\* that hold one each, the embed of the second line is taken.
C30_Witness ==
    /\ cmd = "embed"
    /\ pc = "awaitProvider"
    /\ editor.doc = <<EMBED_OPEN, "0", EMBED_CLOSE, NL,
                      EMBED_OPEN, "1", EMBED_CLOSE, NL, "t">>
    /\ editor.anchor = 9
    /\ editor.head = 9
    /\ prepared[1].path = <<"1">>

=============================================================================
